---- MODULE Spec2Model ----
(***************************************************************************)
(* A model of the retrieval and context-intelligence pipeline of           *)
(* paperforge-rs: reciprocal-rank fusion, the hybrid retriever, the        *)
(* context stitcher and the multi-hop reasoner.                            *)
(*                                                                         *)
(* Conventions                                                             *)
(*  - f32 scores are modelled as exact non-negative rationals <<n, d>>     *)
(*    (d > 0) compared by cross-multiplication; x / x is exactly 1, as in  *)
(*    IEEE arithmetic.                                                     *)
(*  - Option<T> is None == <<>> or Some(x) == <<x>>; an absent rank is 0.  *)
(*  - The iteration order of a std::collections::HashMap is unspecified    *)
(*    (RandomState): every action that iterates one takes the order as a   *)
(*    nondeterministic choice among the permutations of its keys.          *)
(***************************************************************************)
EXTENDS Integers, Sequences, FiniteSets, TLC

VARIABLES fuseSt, hybridSt, stitchSt, reasonSt, graphSt, rankSt, citeSt, searchSt, parseSt, embedSt, ingestSt, grpcSt

vars == <<fuseSt, hybridSt, stitchSt, reasonSt,
         graphSt, rankSt, citeSt, searchSt,
         parseSt, embedSt, ingestSt, grpcSt>>

\* The value of a component's state in the specifications that do not run it.
Idle == [pc |-> "idle"]

(***************************************************************************)
(* Bounds of the model                                                     *)
(***************************************************************************)
\* longest ranked list handed to RRFusion::fuse
MaxLen == 3
\* largest `limit` of a fuse call / SearchRequest
MaxLimit == 3

(***************************************************************************)
(* Generic helpers                                                         *)
(***************************************************************************)
Min(a, b) == IF a <= b THEN a ELSE b

Max(a, b) == IF a >= b THEN a ELSE b

SetMax(S) == CHOOSE x \in S : \A y \in S : y <= x

\* All sequences that list every element of S exactly once.
Perms(S) ==
    {f \in [1..Cardinality(S) -> S] : \A i, j \in 1..Cardinality(S) : f[i] = f[j] => i = j}

\* Injective sequences over S of length at most n.
InjSeqs(S, n) ==
    UNION {{f \in [1..m -> S] : \A i, j \in 1..m : f[i] = f[j] => i = j} : m \in 0..n}

\* Vec::truncate
Truncate(s, n) == SubSeq(s, 1, Min(n, Len(s)))

(***************************************************************************)
(* Rational scores                                                         *)
(***************************************************************************)
Zero == <<0, 1>>

One == <<1, 1>>

RECURSIVE GCD(_, _)
GCD(a, b) == IF b = 0 THEN a ELSE GCD(b, a % b)

\* Lowest terms, so that equal scores are equal values.
Reduce(n, d) == LET g == GCD(n, d) IN <<n \div g, d \div g>>

RAdd(a, b) == Reduce(a[1] * b[2] + b[1] * a[2], a[2] * b[2])

RDiv(a, b) == Reduce(a[1] * b[2], a[2] * b[1])

RLess(a, b) == a[1] * b[2] < b[1] * a[2]

REq(a, b) == a[1] * b[2] = b[1] * a[2]

RLeq(a, b) == a[1] * b[2] <= b[1] * a[2]

(***************************************************************************)
(* retrieval/mod.rs: RetrievedChunk                                        *)
(***************************************************************************)
ChunkIds == 1..4

\* Two chunks per paper: chunks 1,2 are chunks 0,1 of paper 1, and so on.
PaperOf(id) == ((id - 1) \div 2) + 1

IndexOf(id) == (id - 1) % 2

MakeChunk(id, score, mode) ==
    [chunk_id |-> id, paper_id |-> PaperOf(id), chunk_index |-> IndexOf(id),
     score |-> score, retrieval_mode |-> mode]

\* A retriever's ranked answer: the chunks ids[1], ids[2], ... with the
\* descending scores 0.9, 0.8, ... (as in test_rrf_fusion).
RankedList(ids, mode) ==
    [i \in 1..Len(ids) |-> MakeChunk(ids[i], <<10 - i, 10>>, mode)]

IdsOf(chunks) == [i \in 1..Len(chunks) |-> chunks[i].chunk_id]

(***************************************************************************)
(* retrieval/fusion.rs: RRFusion                                           *)
(***************************************************************************)
\* RRFusion::default / with_weights: k = 60
RRF_K == 60

\* Default: vector_weight 0.6, bm25_weight 0.4 (in tenths).
DefaultFusion == [k |-> RRF_K, vector_weight |-> 6, bm25_weight |-> 4]

\* RRFusion::with_weights(vector_weight, bm25_weight), weights in tenths.
WithWeights(vw, bw) == [k |-> RRF_K, vector_weight |-> vw, bm25_weight |-> bw]

\* Rank (1-based) that the chunk_map holds for `id` after the loop over a
\* list: every later occurrence overwrites the earlier one; 0 is None.
RankIn(list, id) ==
    IF \E i \in 1..Len(list) : list[i].chunk_id = id
    THEN SetMax({i \in 1..Len(list) : list[i].chunk_id = id})
    ELSE 0

FirstIn(list, id) == CHOOSE i \in 1..Len(list) :
    /\ list[i].chunk_id = id
    /\ \A j \in 1..(i - 1) : list[j].chunk_id # id

\* Keys of chunk_map after both loops.
ChunkMapKeys(vector_results, bm25_results) ==
    {vector_results[i].chunk_id : i \in 1..Len(vector_results)}
        \cup {bm25_results[i].chunk_id : i \in 1..Len(bm25_results)}

\* The entry (chunk, vector_rank, bm25_rank) of chunk_map for `id`.
ChunkMapEntry(vector_results, bm25_results, id) ==
    LET vr == RankIn(vector_results, id)
        br == RankIn(bm25_results, id)
    IN  [chunk |-> IF vr > 0 THEN vector_results[vr]
                   ELSE bm25_results[FirstIn(bm25_results, id)],
         vector_rank |-> vr,
         bm25_rank |-> br]

\* weight / (k + r), or 0.0 for an absent rank
RankTerm(weight, k, r) == IF r = 0 THEN Zero ELSE Reduce(weight, 10 * (k + r))

RrfScore(fusion, vector_rank, bm25_rank) ==
    RAdd(RankTerm(fusion.vector_weight, fusion.k, vector_rank),
         RankTerm(fusion.bm25_weight, fusion.k, bm25_rank))

\* The closure of the map over chunk_map: rescored, re-tagged result.
ToFusionResult(fusion, e) ==
    LET s == RrfScore(fusion, e.vector_rank, e.bm25_rank)
    IN  [chunk |-> [e.chunk EXCEPT !.score = s, !.retrieval_mode = "Hybrid"],
         vector_rank |-> e.vector_rank,
         bm25_rank |-> e.bm25_rank,
         rrf_score |-> s]

\* results.sort_by(|a, b| b.rrf_score.partial_cmp(&a.rrf_score)): a stable
\* sort, so results of equal score keep the order they were collected in.
RECURSIVE InsertByScore(_, _)
InsertByScore(sorted, r) ==
    IF sorted = <<>> THEN <<r>>
    ELSE IF RLess(sorted[Len(sorted)].rrf_score, r.rrf_score)
         THEN Append(InsertByScore(SubSeq(sorted, 1, Len(sorted) - 1), r),
                     sorted[Len(sorted)])
         ELSE Append(sorted, r)

RECURSIVE SortByScoreDesc(_)
SortByScoreDesc(s) ==
    IF s = <<>> THEN <<>>
    ELSE InsertByScore(SortByScoreDesc(SubSeq(s, 1, Len(s) - 1)), s[Len(s)])

NormalizeNone(results) == results

\* Normalize scores to 0-1: divide by the first (largest) score if positive.
Normalize(results) ==
    IF results = <<>> THEN results
    ELSE LET max_score == results[1].rrf_score
         IN  IF RLess(Zero, max_score)
             THEN [i \in 1..Len(results) |->
                     [results[i] EXCEPT
                        !.chunk.score = RDiv(results[i].rrf_score, max_score),
                        !.rrf_score = RDiv(results[i].rrf_score, max_score)]]
             ELSE results

\* RRFusion::fuse; `order` is the order in which chunk_map.into_iter()
\* yields the entries.
Fuse(fusion, vector_results, bm25_results, limit, order) ==
    LET collected == [i \in 1..Len(order) |->
                        ToFusionResult(fusion,
                            ChunkMapEntry(vector_results, bm25_results, order[i]))]
    IN  Normalize(Truncate(SortByScoreDesc(collected), limit))

ResultIds(results) == [i \in 1..Len(results) |-> results[i].chunk.chunk_id]

(***************************************************************************)
(* Specification SpecFuse: one call of RRFusion::fuse                      *)
(***************************************************************************)
FusionConfigs == {DefaultFusion, WithWeights(5, 5)}

InitFuse ==
    /\ fuseSt \in {[pc |-> "call", fusion |-> f,
                    vector_results |-> RankedList(v, "Vector"),
                    bm25_results |-> RankedList(l, "BM25"),
                    limit |-> n, results |-> <<>>] :
                   f \in FusionConfigs,
                   v \in InjSeqs(ChunkIds, MaxLen),
                   l \in InjSeqs(ChunkIds, MaxLen),
                   n \in 1..MaxLimit}
    /\ hybridSt = Idle
    /\ stitchSt = Idle
    /\ reasonSt = Idle
    /\ graphSt = Idle
    /\ rankSt = Idle
    /\ citeSt = Idle
    /\ searchSt = Idle
    /\ parseSt = Idle
    /\ embedSt = Idle
    /\ ingestSt = Idle
    /\ grpcSt = Idle

FuseCall ==
    /\ fuseSt.pc = "call"
    /\ \E order \in Perms(ChunkMapKeys(fuseSt.vector_results, fuseSt.bm25_results)) :
         fuseSt' = [fuseSt EXCEPT
                      !.pc = "done",
                      !.results = Fuse(fuseSt.fusion, fuseSt.vector_results,
                                       fuseSt.bm25_results, fuseSt.limit, order)]
    /\ UNCHANGED <<hybridSt, stitchSt, reasonSt,
                   graphSt, rankSt, citeSt, searchSt,
                   parseSt, embedSt, ingestSt, grpcSt>>

NextFuse == FuseCall

SpecFuse == InitFuse /\ [][NextFuse]_vars

(***************************************************************************)
(* retrieval/vector.rs, bm25.rs, hybrid.rs: the three retrievers           *)
(***************************************************************************)
\* most rows a store query answers with
MaxRows == 2

Ok(chunks) == [ok |-> TRUE, chunks |-> chunks]

Err(kind) == [ok |-> FALSE, err |-> kind]

\* Option<T>: None, or Some(x)
None == <<>>

Some(x) == <<x>>

\* A future that has not completed yet.
Pending == [ok |-> FALSE, err |-> "Pending"]

\* Option::unwrap_or(0.0) on min_score
MinScoreOrZero(min_score) == IF min_score = None THEN Zero ELSE min_score[1]

\* What the store can answer to a query with LIMIT `limit`: a database
\* error, or at most `limit` matching rows in rank order.
StoreAnswers(limit, mode) ==
    {Err("DatabaseError")}
        \cup {Ok(RankedList(ids, mode)) : ids \in InjSeqs(ChunkIds, Min(limit, MaxRows))}

\* VectorRetriever::retrieve with the statement sent before the embedding
\* is looked at.
VectorRetrieveQueryFirst(request, db) ==
    IF ~db.ok
    THEN [result |-> db, queried |-> TRUE]
    ELSE IF request.query_embedding = None
         THEN [result |-> Err("ValidationFailed"), queried |-> TRUE]
         ELSE [result |-> Ok(db.chunks), queried |-> TRUE]

\* VectorRetriever::retrieve: [result, queried] for a store answer `db`.
\* A request without query_embedding fails before any statement is sent.
VectorRetrieve(request, db) ==
    IF request.query_embedding = None
    THEN [result |-> Err("ValidationFailed"), queried |-> FALSE]
    ELSE IF ~db.ok
         THEN [result |-> db, queried |-> TRUE]
         ELSE [result |-> Ok(db.chunks), queried |-> TRUE]

\* BM25Retriever::retrieve: a query whose ts_query is empty answers Ok([])
\* without a statement; rows below min_score are dropped.
BM25Retrieve(request, db) ==
    IF request.ts_query_empty
    THEN [result |-> Ok(<<>>), queried |-> FALSE]
    ELSE IF ~db.ok
         THEN [result |-> db, queried |-> TRUE]
         ELSE [result |-> Ok(SelectSeq(db.chunks,
                               LAMBDA c : ~RLess(c.score, MinScoreOrZero(request.min_score)))),
               queried |-> TRUE]

\* Result::unwrap_or_default
UnwrapOrDefault(r) == IF r.ok THEN r.chunks ELSE <<>>

\* The request each leg of the hybrid retriever gets.
LegRequest(request) ==
    [request EXCEPT !.limit = request.limit * 2, !.min_score = None]

\* HybridRetriever::retrieve after the join: fuse, filter by min_score.
HybridFinish(fusion, request, vector_results, bm25_results, order) ==
    LET fused == Fuse(fusion, UnwrapOrDefault(vector_results),
                      UnwrapOrDefault(bm25_results), request.limit, order)
        kept == SelectSeq(fused,
                    LAMBDA r : ~RLess(r.chunk.score, MinScoreOrZero(request.min_score)))
    IN  Ok([i \in 1..Len(kept) |-> kept[i].chunk])

(***************************************************************************)
(* Specification SpecHybrid: one call of HybridRetriever::retrieve; the    *)
(* two legs of tokio::join! complete in either order.  A request may also  *)
(* go to VectorRetriever::retrieve alone.                                  *)
(***************************************************************************)
SearchRequests ==
    {[query_embedding |-> e, ts_query_empty |-> q, limit |-> n, min_score |-> m] :
        e \in {Some("embedding"), None}, q \in BOOLEAN, n \in 1..MaxLimit,
        m \in {None, Some(<<3, 10>>), Some(One)}}

InitHybrid ==
    /\ hybridSt \in {[pc |-> pc, request |-> r, fusion |-> DefaultFusion,
                      vector_results |-> Pending, bm25_results |-> Pending,
                      db_queries |-> {}, response |-> Pending] :
                     r \in SearchRequests, pc \in {"join", "vector"}}
    /\ fuseSt = Idle
    /\ stitchSt = Idle
    /\ reasonSt = Idle
    /\ graphSt = Idle
    /\ rankSt = Idle
    /\ citeSt = Idle
    /\ searchSt = Idle
    /\ parseSt = Idle
    /\ embedSt = Idle
    /\ ingestSt = Idle
    /\ grpcSt = Idle

\* self.vector.retrieve(&vector_request) runs to completion
VectorLeg ==
    /\ hybridSt.pc = "join"
    /\ hybridSt.vector_results = Pending
    /\ \E db \in StoreAnswers(LegRequest(hybridSt.request).limit, "Vector") :
         LET r == VectorRetrieve(LegRequest(hybridSt.request), db)
         IN  hybridSt' = [hybridSt EXCEPT
                 !.vector_results = r.result,
                 !.db_queries = IF r.queried THEN @ \cup {"vector"} ELSE @]
    /\ UNCHANGED <<fuseSt, stitchSt, reasonSt,
                   graphSt, rankSt, citeSt, searchSt,
                   parseSt, embedSt, ingestSt, grpcSt>>

\* self.bm25.retrieve(&bm25_request) runs to completion
BM25Leg ==
    /\ hybridSt.pc = "join"
    /\ hybridSt.bm25_results = Pending
    /\ \E db \in StoreAnswers(LegRequest(hybridSt.request).limit, "BM25") :
         LET r == BM25Retrieve(LegRequest(hybridSt.request), db)
         IN  hybridSt' = [hybridSt EXCEPT
                 !.bm25_results = r.result,
                 !.db_queries = IF r.queried THEN @ \cup {"bm25"} ELSE @]
    /\ UNCHANGED <<fuseSt, stitchSt, reasonSt,
                   graphSt, rankSt, citeSt, searchSt,
                   parseSt, embedSt, ingestSt, grpcSt>>

\* both futures are ready: the rest of retrieve
HybridReturn ==
    /\ hybridSt.pc = "join"
    /\ hybridSt.vector_results # Pending
    /\ hybridSt.bm25_results # Pending
    /\ \E order \in Perms(ChunkMapKeys(UnwrapOrDefault(hybridSt.vector_results),
                                       UnwrapOrDefault(hybridSt.bm25_results))) :
         hybridSt' = [hybridSt EXCEPT
             !.pc = "done",
             !.response = HybridFinish(hybridSt.fusion, hybridSt.request,
                                       hybridSt.vector_results,
                                       hybridSt.bm25_results, order)]
    /\ UNCHANGED <<fuseSt, stitchSt, reasonSt,
                   graphSt, rankSt, citeSt, searchSt,
                   parseSt, embedSt, ingestSt, grpcSt>>

\* self.vector.retrieve(&request) called on its own: the statement carries
\* min_score in its WHERE clause, so the rows it returns are not below it.
VectorAlone ==
    /\ hybridSt.pc = "vector"
    /\ \E db \in StoreAnswers(hybridSt.request.limit, "Vector") :
         /\ db.ok => \A i \in 1..Len(db.chunks) :
                         ~RLess(db.chunks[i].score,
                                MinScoreOrZero(hybridSt.request.min_score))
         /\ LET r == VectorRetrieve(hybridSt.request, db)
            IN  hybridSt' = [hybridSt EXCEPT
                    !.pc = "vector_done",
                    !.response = r.result,
                    !.db_queries = IF r.queried THEN @ \cup {"vector"} ELSE @]
    /\ UNCHANGED <<fuseSt, stitchSt, reasonSt,
                   graphSt, rankSt, citeSt, searchSt,
                   parseSt, embedSt, ingestSt, grpcSt>>

NextHybrid == VectorLeg \/ BM25Leg \/ HybridReturn \/ VectorAlone

SpecHybrid == InitHybrid /\ [][NextHybrid]_vars

(***************************************************************************)
(* Text.  A Rust String is modelled as a run-length sequence of            *)
(* characters: <<c, n>> is the character c repeated n times, adjacent runs *)
(* hold different characters.  len() counts UTF-8 bytes, chars() counts    *)
(* characters; the two differ on the two-byte character "U+00E9".          *)
(***************************************************************************)
\* char::len_utf8
Width(c) == IF c = "U+00E9" THEN 2 ELSE 1

\* char::is_whitespace
IsWhitespace(c) == c \in {" ", "\n"}

UpperLetters ==
    <<"A", "B", "C", "D", "E", "F", "G", "H", "I", "J", "K", "L", "M",
      "N", "O", "P", "Q", "R", "S", "T", "U", "V", "W", "X", "Y", "Z">>

LowerLetters ==
    <<"a", "b", "c", "d", "e", "f", "g", "h", "i", "j", "k", "l", "m",
      "n", "o", "p", "q", "r", "s", "t", "u", "v", "w", "x", "y", "z">>

\* char::to_lowercase (ASCII letters)
LowerMap ==
    [c \in {UpperLetters[i] : i \in 1..Len(UpperLetters)} |->
        LowerLetters[CHOOSE i \in 1..Len(UpperLetters) : UpperLetters[i] = c]]

LowerOf(c) == IF c \in DOMAIN LowerMap THEN LowerMap[c] ELSE c

RECURSIVE ByteLen(_)
\* str::len
ByteLen(t) ==
    IF t = <<>> THEN 0 ELSE t[1][2] * Width(t[1][1]) + ByteLen(Tail(t))

RECURSIVE CharLen(_)
\* str::chars().count()
CharLen(t) == IF t = <<>> THEN 0 ELSE t[1][2] + CharLen(Tail(t))

\* String::push_str
Concat(a, b) ==
    IF a = <<>> THEN b
    ELSE IF b = <<>> THEN a
    ELSE IF a[Len(a)][1] = b[1][1]
         THEN SubSeq(a, 1, Len(a) - 1)
                  \o <<<<b[1][1], a[Len(a)][2] + b[1][2]>>>> \o Tail(b)
         ELSE a \o b

RECURSIVE Str(_)
\* The String spelled by a tuple of characters.
Str(cs) ==
    IF cs = <<>> THEN <<>>
    ELSE Concat(Str(SubSeq(cs, 1, Len(cs) - 1)), <<<<cs[Len(cs)], 1>>>>)

\* c repeated n times
Repeat(c, n) == IF n = 0 THEN <<>> ELSE <<<<c, n>>>>

RECURSIVE TakeChars(_, _)
\* chars().take(m).collect()
TakeChars(t, m) ==
    IF t = <<>> \/ m <= 0 THEN <<>>
    ELSE IF t[1][2] <= m
         THEN <<t[1]>> \o TakeChars(Tail(t), m - t[1][2])
         ELSE <<<<t[1][1], m>>>>

RECURSIVE DropChars(_, _)
DropChars(t, m) ==
    IF t = <<>> \/ m <= 0 THEN t
    ELSE IF t[1][2] <= m
         THEN DropChars(Tail(t), m - t[1][2])
         ELSE <<<<t[1][1], t[1][2] - m>>>> \o Tail(t)

RECURSIVE CharsForBytes(_, _)
\* The number of characters in the first k bytes of t, or -1 when byte k
\* is not a character boundary (where slicing a str panics).
CharsForBytes(t, k) ==
    IF k = 0 THEN 0
    ELSE IF t = <<>> THEN -1
    ELSE LET w == Width(t[1][1])
             n == t[1][2]
         IN  IF k >= n * w
             THEN LET r == CharsForBytes(Tail(t), k - n * w)
                  IN  IF r < 0 THEN -1 ELSE n + r
             ELSE IF k % w = 0 THEN k \div w ELSE -1

RECURSIVE Expand(_)
\* The characters of t, one by one.
Expand(t) ==
    IF t = <<>> THEN <<>>
    ELSE [i \in 1..t[1][2] |-> t[1][1]] \o Expand(Tail(t))

\* str::contains on character sequences
Contains(hay, needle) ==
    \E i \in 1..(Len(hay) - Len(needle) + 1) :
        SubSeq(hay, i, i + Len(needle) - 1) = needle

\* Number of occurrences of needle in hay.
Occurrences(hay, needle) ==
    Cardinality({i \in 1..(Len(hay) - Len(needle) + 1) :
                    SubSeq(hay, i, i + Len(needle) - 1) = needle})

RECURSIVE WordsFrom(_, _)
\* split_whitespace().map(to_lowercase): the set of lowercased words of t,
\* `cur` being the word read so far.
WordsFrom(t, cur) ==
    IF t = <<>> THEN (IF cur = <<>> THEN {} ELSE {cur})
    ELSE IF IsWhitespace(t[1][1])
         THEN (IF cur = <<>> THEN {} ELSE {cur}) \cup WordsFrom(Tail(t), <<>>)
         ELSE WordsFrom(Tail(t), Concat(cur, <<<<LowerOf(t[1][1]), t[1][2]>>>>))

(***************************************************************************)
(* context/context_stitcher.rs: ContextStitcher                            *)
(***************************************************************************)
\* trim_window is tried only when more than this many tokens remain
MinTrimRemainder == 500

\* 1 token ~= 4 characters
CharsPerToken == 4

\* ContextStitcherConfig::default
DefaultStitcherConfig ==
    [max_tokens |-> 4000, max_windows |-> 5, stitch_overlap |-> 100,
     min_chunk_score |-> <<3, 10>>]

\* estimate_tokens
EstimateTokens(text) == ByteLen(text) \div CharsPerToken

\* One step of the loop of stitch_chunks: `result` extended by the next
\* chunk's content.  [ok |-> FALSE] is a panic (a slice off a boundary).
StitchStep(result, content, stitch_overlap) ==
    LET rl == ByteLen(result)
        cl == ByteLen(content)
        cutR == IF rl > stitch_overlap
                THEN CharsForBytes(result, rl - stitch_overlap) ELSE 0
        cutC == IF cl > stitch_overlap
                THEN CharsForBytes(content, stitch_overlap) ELSE CharLen(content)
    IN  IF cutR < 0 \/ cutC < 0 THEN [ok |-> FALSE, text |-> <<>>]
        ELSE LET prev_end == DropChars(result, cutR)
                 chunk_start == TakeChars(content, cutC)
             IN  IF Contains(Expand(prev_end), Expand(chunk_start))
                 THEN [ok |-> TRUE, text |-> Concat(result, DropChars(content, cutC))]
                 ELSE [ok |-> TRUE,
                       text |-> Concat(Concat(result, Str(<<"\n", "\n">>)), content)]

RECURSIVE StitchChunks(_, _)
\* stitch_chunks
StitchChunks(chunks, stitch_overlap) ==
    IF chunks = <<>> THEN [ok |-> TRUE, text |-> <<>>]
    ELSE IF Len(chunks) = 1 THEN [ok |-> TRUE, text |-> chunks[1].content]
    ELSE LET head == StitchChunks(SubSeq(chunks, 1, Len(chunks) - 1), stitch_overlap)
         IN  IF ~head.ok THEN head
             ELSE StitchStep(head.text, chunks[Len(chunks)].content, stitch_overlap)

RECURSIVE SumScores(_)
SumScores(chunks) ==
    IF chunks = <<>> THEN Zero ELSE RAdd(chunks[1].score, SumScores(Tail(chunks)))

RECURSIVE InsertByIndex(_, _)
InsertByIndex(sorted, c) ==
    IF sorted = <<>> THEN <<c>>
    ELSE IF c.chunk_index < sorted[Len(sorted)].chunk_index
         THEN Append(InsertByIndex(SubSeq(sorted, 1, Len(sorted) - 1), c),
                     sorted[Len(sorted)])
         ELSE Append(sorted, c)

RECURSIVE SortByIndex(_)
\* chunks.sort_by_key(|c| c.chunk_index), a stable sort
SortByIndex(s) ==
    IF s = <<>> THEN <<>>
    ELSE InsertByIndex(SortByIndex(SubSeq(s, 1, Len(s) - 1)), s[Len(s)])

\* create_window; [ok |-> FALSE] when stitch_chunks panics
CreateWindow(config, paper_id, paper_chunks) ==
    LET chunks == SortByIndex(paper_chunks)
        stitched == StitchChunks(chunks, config.stitch_overlap)
    IN  [ok |-> stitched.ok,
         window |->
           [paper_id |-> paper_id,
            paper_title |-> IF chunks = <<>> THEN "" ELSE chunks[1].paper_title,
            content |-> stitched.text,
            chunk_range |-> IF chunks = <<>> THEN <<0, 0>>
                            ELSE <<chunks[1].chunk_index, chunks[Len(chunks)].chunk_index>>,
            relevance_score |-> IF chunks = <<>> THEN Zero
                                ELSE RDiv(SumScores(chunks), <<Len(chunks), 1>>),
            token_count |-> EstimateTokens(stitched.text)]]

\* trim_window: keeps the first max_tokens * 4 characters
TrimWindow(window, max_tokens) ==
    LET estimated_chars == max_tokens * CharsPerToken
        content == IF ByteLen(window.content) > estimated_chars
                   THEN TakeChars(window.content, estimated_chars)
                   ELSE window.content
    IN  [window EXCEPT !.content = content, !.token_count = EstimateTokens(content)]

RECURSIVE InsertByPaperIndex(_, _)
InsertByPaperIndex(sorted, c) ==
    IF sorted = <<>> THEN <<c>>
    ELSE LET l == sorted[Len(sorted)]
         IN  IF \/ c.paper_id < l.paper_id
                \/ c.paper_id = l.paper_id /\ c.chunk_index < l.chunk_index
             THEN Append(InsertByPaperIndex(SubSeq(sorted, 1, Len(sorted) - 1), c), l)
             ELSE Append(sorted, c)

RECURSIVE SortByPaperIndex(_)
\* chunks.sort_by(paper_id, then chunk_index), a stable sort
SortByPaperIndex(s) ==
    IF s = <<>> THEN <<>>
    ELSE InsertByPaperIndex(SortByPaperIndex(SubSeq(s, 1, Len(s) - 1)), s[Len(s)])

\* The chunks that pass the min_chunk_score filter, sorted.
FilteredSorted(config, chunks) ==
    SortByPaperIndex(SelectSeq(chunks,
        LAMBDA c : ~RLess(c.score, config.min_chunk_score)))

\* Keys of paper_groups
PaperGroupKeys(config, chunks) ==
    LET fs == FilteredSorted(config, chunks)
    IN  {fs[i].paper_id : i \in 1..Len(fs)}

\* paper_groups[paper_id]
PaperGroup(config, chunks, paper_id) ==
    SelectSeq(FilteredSorted(config, chunks), LAMBDA c : c.paper_id = paper_id)

RECURSIVE WindowLoop(_, _, _, _, _, _)
\* The loop `for (paper_id, paper_chunks) in paper_groups` from its i-th
\* iteration on; `order` is the iteration order of the HashMap.
WindowLoop(config, chunks, order, i, windows, total_tokens) ==
    IF i > Len(order) \/ Len(windows) >= config.max_windows
    THEN [ok |-> TRUE, windows |-> windows]
    ELSE LET cw == CreateWindow(config, order[i], PaperGroup(config, chunks, order[i]))
             window == cw.window
         IN  IF ~cw.ok THEN [ok |-> FALSE, windows |-> <<>>]
             ELSE IF total_tokens + window.token_count > config.max_tokens
             THEN LET remaining == Max(config.max_tokens - total_tokens, 0)
                  IN  IF remaining > MinTrimRemainder
                      THEN [ok |-> TRUE,
                            windows |-> Append(windows, TrimWindow(window, remaining))]
                      ELSE [ok |-> TRUE, windows |-> windows]
             ELSE WindowLoop(config, chunks, order, i + 1, Append(windows, window),
                             total_tokens + window.token_count)

\* The words calculate_overlap compares: lowercased, longer than 4 bytes.
LongWords(text) == {w \in WordsFrom(text, <<>>) : ByteLen(w) > 4}

\* calculate_overlap: Jaccard overlap of the long words of two texts
CalculateOverlap(text_a, text_b) ==
    LET words_a == LongWords(text_a)
        words_b == LongWords(text_b)
    IN  IF words_a = {} \/ words_b = {} THEN Zero
        ELSE Reduce(Cardinality(words_a \cap words_b), Cardinality(words_a \cup words_b))

RECURSIVE CrossRefsFrom(_, _, _)
\* detect_cross_references: the references (i, j), j > i, from pair (i, j) on,
\* with 0-based window indices as in the code.
CrossRefsFrom(windows, i, j) ==
    IF i >= Len(windows) THEN <<>>
    ELSE IF j >= Len(windows) THEN CrossRefsFrom(windows, i + 1, i + 2)
    ELSE LET strength == CalculateOverlap(windows[i + 1].content, windows[j + 1].content)
             rest == CrossRefsFrom(windows, i, j + 1)
         IN  IF RLess(<<2, 10>>, strength)
             THEN <<[from_window |-> i, to_window |-> j,
                     reference_type |-> "Concept", strength |-> strength]>> \o rest
             ELSE rest

DetectCrossReferences(windows) == CrossRefsFrom(windows, 0, 1)

RECURSIVE InsertByRelevance(_, _)
InsertByRelevance(sorted, w) ==
    IF sorted = <<>> THEN <<w>>
    ELSE IF RLess(sorted[Len(sorted)].relevance_score, w.relevance_score)
         THEN Append(InsertByRelevance(SubSeq(sorted, 1, Len(sorted) - 1), w),
                     sorted[Len(sorted)])
         ELSE Append(sorted, w)

RECURSIVE SortByRelevance(_)
\* windows.sort_by(relevance_score descending), a stable sort
SortByRelevance(s) ==
    IF s = <<>> THEN <<>>
    ELSE InsertByRelevance(SortByRelevance(SubSeq(s, 1, Len(s) - 1)), s[Len(s)])

\* ContextStitcher::stitch: [ok, windows, cross_refs]; ok = FALSE is a panic.
Stitch(config, chunks, order) ==
    LET built == WindowLoop(config, chunks, order, 1, <<>>, 0)
    IN  IF ~built.ok THEN [ok |-> FALSE, windows |-> <<>>, cross_refs |-> <<>>]
        ELSE [ok |-> TRUE,
              windows |-> SortByRelevance(built.windows),
              cross_refs |-> DetectCrossReferences(built.windows)]

(***************************************************************************)
(* Specification SpecStitch: one call of ContextStitcher::stitch           *)
(***************************************************************************)
\* most chunks handed to one stitch call
MaxChunks == 3

FigureLeft ==
    Str(
    <<".", ".", ".", "t", "h", "e", " ", "m", "o", "d", "e", "l", " ", "u",
      "s", "e", "s", " ", "a", "t", "t", "e", "n", "t", "i", "o", "n", ".",
      " ", "F", "i", "g", "u", "r", "e", " ", "1">>)

FigureRight ==
    Str(
    <<"F", "i", "g", "u", "r", "e", " ", "1", " ", "s", "h", "o", "w", "s",
      " ", "r", "e", "s", "u", "l", "t", "s", ".", " ", "T", "r", "a", "i",
      "n", "i", "n", "g", ".", ".", ".">>)

AlphaBravo ==
    Str(
    <<"a", "l", "p", "h", "a", " ", "b", "r", "a", "v", "o">>)

AlphaBravoDelta ==
    Str(
    <<"a", "l", "p", "h", "a", " ", "b", "r", "a", "v", "o", " ", "d", "e",
      "l", "t", "a">>)

ChunkInput(id, paper, index, score, content) ==
    [chunk_id |-> id, paper_id |-> paper, paper_title |-> <<"Paper", paper>>,
     content |-> content, chunk_index |-> index, score |-> score]

\* The chunks a stitch call is made of.
ChunkPool ==
    {ChunkInput(1, 1, 0, <<8, 10>>, FigureLeft),
     ChunkInput(2, 1, 1, <<6, 10>>, FigureRight),
     ChunkInput(3, 1, 2, <<1, 10>>, AlphaBravo),
     ChunkInput(4, 2, 0, <<5, 10>>, AlphaBravo),
     ChunkInput(5, 2, 1, <<9, 10>>, Repeat("x", 2800)),
     ChunkInput(6, 3, 0, <<4, 10>>, AlphaBravoDelta),
     ChunkInput(7, 3, 1, <<9, 10>>, Repeat("U+00E9", 1400)),
     ChunkInput(8, 3, 2, <<7, 10>>, Concat(Str(<<"a">>), Repeat("U+00E9", 30)))}

StitcherConfigs ==
    {[DefaultStitcherConfig EXCEPT
        !.max_tokens = t, !.max_windows = w, !.stitch_overlap = o] :
     t \in {4000, 600}, w \in {5, 2}, o \in {100, 20}}

InitStitch ==
    /\ stitchSt \in {[pc |-> "call", config |-> c, chunks |-> ch,
                      windows |-> <<>>, cross_refs |-> <<>>] :
                     c \in StitcherConfigs, ch \in InjSeqs(ChunkPool, MaxChunks)}
    /\ fuseSt = Idle
    /\ hybridSt = Idle
    /\ reasonSt = Idle
    /\ graphSt = Idle
    /\ rankSt = Idle
    /\ citeSt = Idle
    /\ searchSt = Idle
    /\ parseSt = Idle
    /\ embedSt = Idle
    /\ ingestSt = Idle
    /\ grpcSt = Idle

StitchCall ==
    /\ stitchSt.pc = "call"
    /\ \E order \in Perms(PaperGroupKeys(stitchSt.config, stitchSt.chunks)) :
         LET r == Stitch(stitchSt.config, stitchSt.chunks, order)
         IN  stitchSt' = [stitchSt EXCEPT
                 !.pc = IF r.ok THEN "done" ELSE "panicked",
                 !.windows = r.windows,
                 !.cross_refs = r.cross_refs]
    /\ UNCHANGED <<fuseSt, hybridSt, reasonSt,
                   graphSt, rankSt, citeSt, searchSt,
                   parseSt, embedSt, ingestSt, grpcSt>>

NextStitch == StitchCall

SpecStitch == InitStitch /\ [][NextStitch]_vars

(***************************************************************************)
(* context/reasoner.rs: Reasoner.  The reasoner's strings are short; they  *)
(* are modelled as plain sequences of characters.                          *)
(***************************************************************************)
\* str::len of a character sequence (UTF-8 bytes)
StrBytes(s) == Len(s) + Cardinality({i \in 1..Len(s) : Width(s[i]) = 2})

\* str::to_lowercase
LowerStr(s) == [i \in 1..Len(s) |-> LowerOf(s[i])]

\* char::is_uppercase
IsUppercase(c) == LowerOf(c) # c

\* char::is_alphanumeric
IsAlphanumeric(c) == ~IsWhitespace(c) /\ c \notin {".", "?", "!", ",", ":"}

\* The k-th smallest element of a set of numbers.
Nth(S, k) == CHOOSE i \in S : Cardinality({j \in S : j < i}) = k - 1

\* str::split_whitespace, as the sequence of words
SplitWhitespace(s) ==
    LET solid(i) == i >= 1 /\ i <= Len(s) /\ ~IsWhitespace(s[i])
        starts == {i \in 1..Len(s) : solid(i) /\ ~solid(i - 1)}
        end(i) == CHOOSE j \in i..Len(s) :
                      /\ ~solid(j + 1)
                      /\ \A m \in i..j : solid(m)
    IN  [k \in 1..Cardinality(starts) |->
            SubSeq(s, Nth(starts, k), end(Nth(starts, k)))]

\* str::trim
Trim(s) ==
    LET solid == {i \in 1..Len(s) : ~IsWhitespace(s[i])}
    IN  IF solid = {} THEN <<>>
        ELSE SubSeq(s, CHOOSE i \in solid : \A j \in solid : i <= j, SetMax(solid))

\* split_sentences: the text is cut after each '.', '?' and '!'; the pieces
\* and the remainder are trimmed and the empty ones dropped.
SplitSentences(text) ==
    LET delims == {i \in 1..Len(text) : text[i] \in {".", "?", "!"}}
        ends == delims \cup (IF text = <<>> THEN {} ELSE {Len(text)})
        piece(e) == Trim(SubSeq(text, SetMax({d \in delims : d < e} \cup {0}) + 1, e))
        kept == {e \in ends : piece(e) # <<>>}
    IN  [k \in 1..Cardinality(kept) |-> piece(Nth(kept, k))]

RECURSIVE Replace(_, _, _)
\* str::replace: every non-overlapping match, left to right
Replace(s, from, to) ==
    IF Len(s) < Len(from) \/ from = <<>> THEN s
    ELSE IF SubSeq(s, 1, Len(from)) = from
         THEN to \o Replace(SubSeq(s, Len(from) + 1, Len(s)), from, to)
         ELSE <<Head(s)>> \o Replace(Tail(s), from, to)

RECURSIVE Dedup(_, _)
\* The elements of s not in `seen`, each once, in order.
Dedup(s, seen) ==
    IF s = <<>> THEN <<>>
    ELSE IF Head(s) \in seen THEN Dedup(Tail(s), seen)
    ELSE <<Head(s)>> \o Dedup(Tail(s), seen \cup {Head(s)})

RECURSIVE InsertByLen(_, _)
InsertByLen(sorted, f) ==
    IF sorted = <<>> THEN <<f>>
    ELSE IF StrBytes(f) < StrBytes(sorted[Len(sorted)])
         THEN Append(InsertByLen(SubSeq(sorted, 1, Len(sorted) - 1), f),
                     sorted[Len(sorted)])
         ELSE Append(sorted, f)

RECURSIVE SortByLen(_)
\* facts.sort_by_key(|f| f.len()), a stable sort
SortByLen(s) ==
    IF s = <<>> THEN <<>>
    ELSE InsertByLen(SortByLen(SubSeq(s, 1, Len(s) - 1)), s[Len(s)])

RECURSIVE AllSentences(_)
\* The sentences of all contexts, in order.
AllSentences(contexts) ==
    IF contexts = <<>> THEN <<>>
    ELSE SplitSentences(contexts[1].content) \o AllSentences(Tail(contexts))

\* The words of the query that extract_facts looks for.
QueryWords(query) ==
    LET ws == SplitWhitespace(LowerStr(query))
    IN  {ws[i] : i \in {j \in 1..Len(ws) : StrBytes(ws[j]) > 3}}

\* A sentence extract_facts keeps: at least 2 query words, 20 < len < 500.
Qualifies(sentence, query_words) ==
    LET sentence_lower == LowerStr(sentence)
    IN  /\ Cardinality({w \in query_words : Contains(sentence_lower, w)}) >= 2
        /\ StrBytes(sentence) > 20
        /\ StrBytes(sentence) < 500

\* extract_facts
ExtractFacts(config, contexts, query) ==
    LET query_words == QueryWords(query)
        kept == SelectSeq(AllSentences(contexts),
                          LAMBDA x : Qualifies(x, query_words))
        facts == Dedup([i \in 1..Len(kept) |-> Trim(kept[i])], {})
    IN  Truncate(SortByLen(facts), config.max_facts_per_hop * 2)

\* hop_facts.filter(|f| seen_facts.insert(f)).take(max_facts_per_hop)
NewFacts(config, hop_facts, seen_facts) ==
    Truncate(SelectSeq(hop_facts, LAMBDA f : f \notin seen_facts),
             config.max_facts_per_hop)

RECURSIVE JoinSpace(_)
\* facts.join(" ")
JoinSpace(facts) ==
    IF facts = <<>> THEN <<>>
    ELSE IF Len(facts) = 1 THEN facts[1]
    ELSE facts[1] \o <<" ">> \o JoinSpace(Tail(facts))

\* extract_potential_concepts
ExtractPotentialConcepts(text, original_query) ==
    LET ow == SplitWhitespace(LowerStr(original_query))
        original_words == {ow[i] : i \in 1..Len(ow)}
        ws == SplitWhitespace(text)
        clean == [i \in 1..Len(ws) |-> SelectSeq(ws[i], IsAlphanumeric)]
        good == SelectSeq(clean, LAMBDA c :
                    /\ StrBytes(c) > 4
                    /\ LowerStr(c) \notin original_words
                    /\ IsUppercase(c[1]))
    IN  Truncate(Dedup(good, {}), 3)

How == <<"h", "o", "w">>

MethodsFor == <<"m", "e", "t", "h", "o", "d", "s", " ", "f", "o", "r">>

NoNextQuery == [next_query |-> None, rationale |-> None]

\* generate_next_query
GenerateNextQuery(current_query, facts) ==
    IF facts = <<>>
    THEN IF Contains(current_query, How)
         THEN [next_query |-> Some(Replace(current_query, How, MethodsFor)),
               rationale |-> Some(<<"Rephrasing to find methods">>)]
         ELSE NoNextQuery
    ELSE LET concepts == ExtractPotentialConcepts(JoinSpace(facts), current_query)
         IN  IF concepts # <<>>
             THEN [next_query |-> Some(current_query \o <<" ">> \o concepts[1]),
                   rationale |-> Some(<<"Exploring related concept: ", concepts[1]>>)]
             ELSE NoNextQuery

RECURSIVE SumCtxScores(_)
SumCtxScores(contexts) ==
    IF contexts = <<>> THEN Zero
    ELSE RAdd(contexts[1].score, SumCtxScores(Tail(contexts)))

RMin(a, b) == IF RLess(a, b) THEN a ELSE b

ConfidenceAlwaysFull(config, contexts, facts) == One

\* calculate_hop_confidence
CalculateHopConfidence(config, contexts, facts) ==
    IF contexts = <<>> \/ facts = <<>> THEN <<3, 10>>
    ELSE LET avg_score == RDiv(SumCtxScores(contexts), <<Len(contexts), 1>>)
             fact_score == RMin(Reduce(Len(facts), config.max_facts_per_hop), One)
         IN  RDiv(RAdd(avg_score, fact_score), <<2, 1>>)

MakeHopZeroBased(query, hop_num, facts, docs, next, confidence) ==
    [query |-> query, hop_number |-> hop_num - 1, facts |-> facts,
     docs_considered |-> docs, next_query |-> next.next_query,
     rationale |-> next.rationale, confidence |-> confidence]

\* An iteration that goes on with the query it already had.
AdvanceQueryStale(current_query, next_query) == current_query

\* match next_query { Some(q) => current_query = q, .. }
AdvanceQuery(current_query, next_query) == next_query[1]

\* The ReasoningHop recorded for an iteration.
MakeHop(query, hop_num, facts, docs, next, confidence) ==
    [query |-> query, hop_number |-> hop_num, facts |-> facts,
     docs_considered |-> docs, next_query |-> next.next_query,
     rationale |-> next.rationale, confidence |-> confidence]

RECURSIVE SumConfidence(_)
SumConfidence(hops) ==
    IF hops = <<>> THEN Zero ELSE RAdd(hops[1].confidence, SumConfidence(Tail(hops)))

\* The ReasoningChain built after the loop.
MakeChain(initial_query, hops, all_facts) ==
    [original_query |-> initial_query,
     hops |-> hops,
     all_facts |-> all_facts,
     confidence |-> IF hops = <<>> THEN Zero
                    ELSE RDiv(SumConfidence(hops), <<Len(hops), 1>>),
     hop_count |-> Len(hops)]

(***************************************************************************)
(* Specification SpecReason: one call of Reasoner::reason, one action per  *)
(* outcome of an iteration of its loop; search_fn may answer anything.     *)
(***************************************************************************)
\* most contexts one search_fn call returns
MaxContexts == 2

QueryAttention ==
    <<"a", "t", "t", "e", "n", "t", "i", "o", "n", " ", "t", "r", "a", "n",
      "s", "f", "o", "r", "m", "e", "r", "s">>

QueryHow ==
    <<"h", "o", "w", " ", "a", "t", "t", "e", "n", "t", "i", "o", "n", " ",
      "w", "o", "r", "k", "s">>

SoftmaxText ==
    <<"A", "t", "t", "e", "n", "t", "i", "o", "n", " ", "i", "n", " ", "t",
      "r", "a", "n", "s", "f", "o", "r", "m", "e", "r", "s", " ", "u", "s",
      "e", "s", " ", "S", "o", "f", "t", "m", "a", "x", " ", "s", "c", "o",
      "r", "e", "s", ".">>

ScalingText ==
    <<"S", "o", "f", "t", "m", "a", "x", " ", "a", "t", "t", "e", "n", "t",
      "i", "o", "n", " ", "i", "n", " ", "t", "r", "a", "n", "s", "f", "o",
      "r", "m", "e", "r", "s", " ", "n", "e", "e", "d", "s", " ", "S", "c",
      "a", "l", "i", "n", "g", ".">>

ThreeFactsText ==
    <<"A", "t", "t", "e", "n", "t", "i", "o", "n", " ", "s", "u", "i", "t",
      "s", " ", "D", "e", "n", "s", "e", " ", "t", "r", "a", "n", "s", "f",
      "o", "r", "m", "e", "r", "s", ".", " ", "A", "t", "t", "e", "n", "t",
      "i", "o", "n", " ", "a", "i", "d", "s", " ", "S", "p", "a", "r", "s",
      "e", " ", "t", "r", "a", "n", "s", "f", "o", "r", "m", "e", "r", "s",
      "!", " ", "A", "t", "t", "e", "n", "t", "i", "o", "n", " ", "d", "r",
      "i", "v", "e", "s", " ", "L", "i", "n", "e", "a", "r", " ", "t", "r",
      "a", "n", "s", "f", "o", "r", "m", "e", "r", "s", ".">>

ReasonerContext(content, source, score) ==
    [content |-> content, source |-> source, score |-> score]

\* What search_fn can find.
ContextPool ==
    {ReasonerContext(SoftmaxText, "paper1", <<9, 10>>),
     ReasonerContext(ScalingText, "paper2", <<9, 10>>),
     ReasonerContext(SoftmaxText, "paper3", <<2, 10>>),
     ReasonerContext(ThreeFactsText, "paper4", <<9, 10>>)}

\* The answers of one search_fn call: an error, or a list of contexts.
SearchOutcomes ==
    {Err("Upstream")} \cup {Ok(cs) : cs \in InjSeqs(ContextPool, MaxContexts)}

\* ReasonerConfig::default
DefaultReasonerConfig ==
    [max_hops |-> 3, min_confidence |-> <<5, 10>>, max_facts_per_hop |-> 5]

ReasonerConfigs ==
    {DefaultReasonerConfig,
     [DefaultReasonerConfig EXCEPT !.min_confidence = <<9, 10>>],
     [DefaultReasonerConfig EXCEPT !.min_confidence = <<2, 10>>,
                                   !.max_facts_per_hop = 1],
     [DefaultReasonerConfig EXCEPT !.max_hops = 1],
     [DefaultReasonerConfig EXCEPT !.max_hops = 0]}

InitReason ==
    /\ reasonSt \in {[pc |-> "loop", config |-> c, initial_query |-> q,
                      hop_num |-> 1, hops |-> <<>>, all_facts |-> <<>>,
                      current_query |-> q, seen_facts |-> {}, calls |-> <<>>,
                      found |-> <<>>,
                      chain |-> MakeChain(q, <<>>, <<>>)] :
                     c \in ReasonerConfigs, q \in {QueryAttention, QueryHow}}
    /\ fuseSt = Idle
    /\ hybridSt = Idle
    /\ stitchSt = Idle
    /\ graphSt = Idle
    /\ rankSt = Idle
    /\ citeSt = Idle
    /\ searchSt = Idle
    /\ parseSt = Idle
    /\ embedSt = Idle
    /\ ingestSt = Idle
    /\ grpcSt = Idle

InLoop == reasonSt.pc = "loop" /\ reasonSt.hop_num <= reasonSt.config.max_hops

Finished(hops, all_facts) ==
    [reasonSt EXCEPT !.pc = "done", !.hops = hops, !.all_facts = all_facts,
                     !.chain = MakeChain(reasonSt.initial_query, hops, all_facts)]

\* search_fn(current_query).await? returns Err: reason returns the error
SearchFails ==
    /\ InLoop
    /\ reasonSt' = [reasonSt EXCEPT
                      !.pc = "error",
                      !.calls = Append(@, reasonSt.current_query),
                      !.found = Append(@, Err("Upstream"))]
    /\ UNCHANGED <<fuseSt, hybridSt, stitchSt,
                   graphSt, rankSt, citeSt, searchSt,
                   parseSt, embedSt, ingestSt, grpcSt>>

\* contexts.is_empty(): break
SearchEmpty ==
    /\ InLoop
    /\ reasonSt' = [Finished(reasonSt.hops, reasonSt.all_facts) EXCEPT
                      !.calls = Append(@, reasonSt.current_query),
                      !.found = Append(@, Ok(<<>>))]
    /\ UNCHANGED <<fuseSt, hybridSt, stitchSt,
                   graphSt, rankSt, citeSt, searchSt,
                   parseSt, embedSt, ingestSt, grpcSt>>

\* `calls` lists the queries search_fn was called with and `found` what it
\* answered.
\* An iteration that records a hop, then breaks or goes on.
RecordHop ==
    /\ InLoop
    /\ \E contexts \in InjSeqs(ContextPool, MaxContexts) \ {<<>>} :
         LET cfg == reasonSt.config
             query == reasonSt.current_query
             hop_facts == ExtractFacts(cfg, contexts, query)
             new_facts == NewFacts(cfg, hop_facts, reasonSt.seen_facts)
             next == IF reasonSt.hop_num < cfg.max_hops
                     THEN GenerateNextQuery(query, new_facts)
                     ELSE NoNextQuery
             confidence == CalculateHopConfidence(cfg, contexts, new_facts)
             hop == MakeHop(query, reasonSt.hop_num, new_facts, Len(contexts),
                            next, confidence)
             hops == Append(reasonSt.hops, hop)
             all_facts == reasonSt.all_facts \o new_facts
             seen == reasonSt.seen_facts \cup {new_facts[i] : i \in 1..Len(new_facts)}
         IN  IF RLess(confidence, cfg.min_confidence) \/ next.next_query = None
             THEN reasonSt' = [Finished(hops, all_facts) EXCEPT
                                 !.seen_facts = seen,
                                 !.calls = Append(@, query),
                                 !.found = Append(@, Ok(contexts))]
             ELSE reasonSt' = [reasonSt EXCEPT
                                 !.hops = hops, !.all_facts = all_facts,
                                 !.seen_facts = seen,
                                 !.calls = Append(@, query),
                                 !.found = Append(@, Ok(contexts)),
                                 !.current_query =
                                     AdvanceQuery(query, next.next_query),
                                 !.hop_num = @ + 1]
    /\ UNCHANGED <<fuseSt, hybridSt, stitchSt,
                   graphSt, rankSt, citeSt, searchSt,
                   parseSt, embedSt, ingestSt, grpcSt>>

\* The range 1..=max_hops is exhausted.
LoopExhausted ==
    /\ reasonSt.pc = "loop"
    /\ reasonSt.hop_num > reasonSt.config.max_hops
    /\ reasonSt' = Finished(reasonSt.hops, reasonSt.all_facts)
    /\ UNCHANGED <<fuseSt, hybridSt, stitchSt,
                   graphSt, rankSt, citeSt, searchSt,
                   parseSt, embedSt, ingestSt, grpcSt>>

NextReason == SearchFails \/ SearchEmpty \/ RecordHop \/ LoopExhausted

SpecReason == InitReason /\ [][NextReason]_vars

(***************************************************************************)
(* citation/graph.rs: CitationGraph.  A HashMap<Uuid, Vec<Uuid>> is a      *)
(* function from papers to sequences; a paper without an entry has <<>>.   *)
(***************************************************************************)
Papers == {"A", "B", "C", "D"}

\* CitationGraph::new
NewGraph ==
    [outgoing |-> [p \in Papers |-> <<>>],
     incoming |-> [p \in Papers |-> <<>>],
     nodes |-> {}]

AddEdgeOutgoingOnly(graph, citing, cited) ==
    [nodes |-> graph.nodes \cup {citing, cited},
     outgoing |-> [graph.outgoing EXCEPT ![citing] = Append(@, cited)],
     incoming |-> graph.incoming]

\* CitationGraph::add_edge
AddEdge(graph, citing, cited) ==
    [nodes |-> graph.nodes \cup {citing, cited},
     outgoing |-> [graph.outgoing EXCEPT ![citing] = Append(@, cited)],
     incoming |-> [graph.incoming EXCEPT ![cited] = Append(@, citing)]]

RECURSIVE AddEdges(_, _)
\* The loop of load_from_db over the citation rows.
AddEdges(graph, rows) ==
    IF rows = <<>> THEN graph
    ELSE AddEdges(AddEdge(graph, rows[1][1], rows[1][2]), Tail(rows))

\* get_references
GetReferences(graph, paper_id) == graph.outgoing[paper_id]

\* get_citations
GetCitations(graph, paper_id) == graph.incoming[paper_id]

\* node_count
NodeCount(graph) == Cardinality(graph.nodes)

\* citation_count
CitationCount(graph, paper_id) == Len(graph.incoming[paper_id])

\* reference_count
ReferenceCount(graph, paper_id) == Len(graph.outgoing[paper_id])

\* TraversalDirection
Directions == {"Forward", "Backward", "Both"}

\* The `match direction` of traverse: for Both the combined list is built
\* and dropped, and the empty slice is what the loop below it iterates.
Neighbors(graph, current, direction) ==
    CASE direction = "Forward" -> GetReferences(graph, current)
      [] direction = "Backward" -> GetCitations(graph, current)
      [] direction = "Both" -> <<>>

RECURSIVE TraverseLoop(_, _, _, _, _, _, _)
\* The `while let Some(..) = queue.pop()` loop of traverse; pop takes the
\* last element of the Vec.
TraverseLoop(graph, start, depth, direction, queue, visited, result) ==
    IF queue = <<>> THEN result
    ELSE LET current == queue[Len(queue)][1]
             current_depth == queue[Len(queue)][2]
             popped == SubSeq(queue, 1, Len(queue) - 1)
         IN  IF current_depth > depth \/ current \in visited
             THEN TraverseLoop(graph, start, depth, direction, popped, visited, result)
             ELSE LET seen == visited \cup {current}
                      neighbors == IF current_depth < depth
                                   THEN Neighbors(graph, current, direction)
                                   ELSE <<>>
                      fresh == SelectSeq(neighbors, LAMBDA n : n \notin seen)
                  IN  TraverseLoop(graph, start, depth, direction,
                          popped \o [i \in 1..Len(fresh) |-> <<fresh[i], current_depth + 1>>],
                          seen,
                          IF current # start
                          THEN Append(result, <<current, current_depth>>)
                          ELSE result)

\* CitationGraph::traverse
Traverse(graph, start, depth, direction) ==
    TraverseLoop(graph, start, depth, direction, <<<<start, 0>>>>, {}, <<>>)

(***************************************************************************)
(* Specification SpecGraph: a graph is built row by row with add_edge and  *)
(* then traversed once.                                                    *)
(***************************************************************************)
\* most rows a graph is built from
MaxEdges == 3

\* the depths a traversal is asked for
Depths == 1..3

\* The papers of the graphs SpecGraph builds.
GraphPapers == {"A", "B", "C"}

InitGraph ==
    /\ graphSt = [pc |-> "build", graph |-> NewGraph, rows |-> <<>>,
                  traversal |-> None]
    /\ fuseSt = Idle
    /\ hybridSt = Idle
    /\ stitchSt = Idle
    /\ reasonSt = Idle
    /\ rankSt = Idle
    /\ citeSt = Idle
    /\ searchSt = Idle
    /\ parseSt = Idle
    /\ embedSt = Idle
    /\ ingestSt = Idle
    /\ grpcSt = Idle

\* One row of load_from_db's loop: graph.add_edge(citing, cited)
AddEdgeCall ==
    /\ graphSt.pc = "build"
    /\ Len(graphSt.rows) < MaxEdges
    /\ \E citing \in GraphPapers, cited \in GraphPapers :
         graphSt' = [graphSt EXCEPT
                       !.graph = AddEdge(@, citing, cited),
                       !.rows = Append(@, <<citing, cited>>)]
    /\ UNCHANGED <<fuseSt, hybridSt, stitchSt, reasonSt,
                   rankSt, citeSt, searchSt,
                   parseSt, embedSt, ingestSt, grpcSt>>

\* graph.traverse(start, depth, direction)
TraverseCall ==
    /\ graphSt.pc = "build"
    /\ \E start \in GraphPapers, depth \in Depths, direction \in Directions :
         graphSt' = [graphSt EXCEPT
                       !.pc = "traversed",
                       !.traversal = Some([start |-> start, depth |-> depth,
                                           direction |-> direction,
                                           result |-> Traverse(graphSt.graph, start,
                                                               depth, direction)])]
    /\ UNCHANGED <<fuseSt, hybridSt, stitchSt, reasonSt,
                   rankSt, citeSt, searchSt,
                   parseSt, embedSt, ingestSt, grpcSt>>

NextGraph == AddEdgeCall \/ TraverseCall

SpecGraph == InitGraph /\ [][NextGraph]_vars

(***************************************************************************)
(* citation/pagerank.rs: PageRankScorer.  Scores are exact rationals; the  *)
(* operations below cancel common factors before they multiply.            *)
(***************************************************************************)
RSum(a, b) ==
    LET g == GCD(a[2], b[2])
    IN  Reduce(a[1] * (b[2] \div g) + b[1] * (a[2] \div g), (a[2] \div g) * b[2])

RNeg(a) == <<0 - a[1], a[2]>>

RAbs(a) == IF a[1] < 0 THEN RNeg(a) ELSE a

RMul(a, b) ==
    LET g1 == GCD(RAbs(a)[1], b[2])
        g2 == GCD(RAbs(b)[1], a[2])
    IN  Reduce((a[1] \div g1) * (b[1] \div g2), (a[2] \div g2) * (b[2] \div g1))

\* a / b for b > 0
RQuot(a, b) == RMul(a, <<b[2], b[1]>>)

RLt(a, b) ==
    LET g == GCD(a[2], b[2])
    IN  a[1] * (b[2] \div g) < b[1] * (a[2] \div g)

RMax(a, b) == IF RLt(a, b) THEN b ELSE a

\* x < epsilon for x >= 0, without multiplying x up
BelowEpsilon(x, epsilon) == x[1] <= (x[2] * epsilon[1] - 1) \div epsilon[2]

\* PageRankConfig::default
DefaultPageRankConfig ==
    [damping |-> <<17, 20>>, max_iterations |-> 100, epsilon |-> <<1, 1000000>>]

RECURSIVE SumOver(_, _)
\* The sum of f over the papers of S.
SumOver(f, S) ==
    IF S = {} THEN Zero
    ELSE LET p == CHOOSE x \in S : TRUE
         IN  RSum(f[p], SumOver(f, S \ {p}))

RECURSIVE MaxOver(_, _)
\* values().fold(0.0, f32::max)
MaxOver(f, S) ==
    IF S = {} THEN Zero
    ELSE LET p == CHOOSE x \in S : TRUE
         IN  RMax(f[p], MaxOver(f, S \ {p}))

\* (1.0 - damping) / n
Teleport(config, n) == RQuot(RSum(One, RNeg(config.damping)), <<n, 1>>)

\* The flow reversed: a paper is fed by the papers it cites.
CitationSumOutgoing(graph, scores, citations, node) ==
    LET cited == GetReferences(graph, node)
    IN  IF cited = <<>> THEN Zero
        ELSE RMul(<<Len(cited), 1>>, scores[cited[1]])

RECURSIVE CitationSum(_, _, _, _)
\* The contributions of the papers citing `node`: score / out_count each
CitationSum(graph, scores, citations, node) ==
    IF citations = <<>> THEN Zero
    ELSE RSum(RQuot(scores[citations[1]],
                    <<ReferenceCount(graph, citations[1]), 1>>),
              CitationSum(graph, scores, Tail(citations), node))

\* new_score of one node
NewScore(graph, config, scores, node) ==
    RSum(Teleport(config, NodeCount(graph)),
         RMul(config.damping,
              CitationSum(graph, scores, GetCitations(graph, node), node)))

\* One pass of the iteration: the new scores and max_diff
Iteration(graph, config, scores) ==
    LET new_scores == [node \in graph.nodes |-> NewScore(graph, config, scores, node)]
        diffs == [node \in graph.nodes |->
                     RAbs(RSum(new_scores[node], RNeg(scores[node])))]
    IN  [scores |-> new_scores, max_diff |-> MaxOver(diffs, graph.nodes)]

\* Normalize to the 0-1 range
NormalizeScores(graph, scores) ==
    LET max_score == MaxOver(scores, graph.nodes)
    IN  IF RLt(Zero, max_score)
        THEN [node \in graph.nodes |-> RQuot(scores[node], max_score)]
        ELSE scores

(***************************************************************************)
(* Specification SpecRank: one call of PageRankScorer::compute, one action *)
(* per pass of its loop.                                                   *)
(***************************************************************************)
\* most rows of the generated graphs
MaxRankEdges == 2

\* A -> B, A -> C, B -> D, C -> D
DiamondGraph ==
    AddEdges(NewGraph, <<<<"A", "B">>, <<"A", "C">>, <<"B", "D">>, <<"C", "D">>>>)

\* The graph of test_pagerank_basic
BasicGraph ==
    AddEdges(NewGraph, <<<<"A", "B">>, <<"B", "C">>, <<"D", "B">>>>)

RankGraphs ==
    {DiamondGraph, BasicGraph} \cup
    {AddEdges(NewGraph, rows) :
        rows \in UNION {[1..k -> Papers \X Papers] : k \in 0..MaxRankEdges}}

\* Few passes, so that the exact scores stay small.
PageRankConfigs ==
    {[DefaultPageRankConfig EXCEPT !.max_iterations = 4],
     [DefaultPageRankConfig EXCEPT !.max_iterations = 2]}

InitRank ==
    /\ rankSt \in {[pc |-> "start", graph |-> g, config |-> c,
                    scores |-> [node \in g.nodes |-> Zero],
                    iterations |-> 0, max_diff |-> Zero,
                    returned |-> None] :
                   g \in RankGraphs, c \in PageRankConfigs}
    /\ fuseSt = Idle
    /\ hybridSt = Idle
    /\ stitchSt = Idle
    /\ reasonSt = Idle
    /\ graphSt = Idle
    /\ citeSt = Idle
    /\ searchSt = Idle
    /\ parseSt = Idle
    /\ embedSt = Idle
    /\ ingestSt = Idle
    /\ grpcSt = Idle

\* n == 0: return HashMap::new()
RankEmpty ==
    /\ rankSt.pc = "start"
    /\ NodeCount(rankSt.graph) = 0
    /\ rankSt' = [rankSt EXCEPT !.pc = "done",
                                !.returned = Some([scores |-> rankSt.scores])]
    /\ UNCHANGED <<fuseSt, hybridSt, stitchSt, reasonSt, graphSt, citeSt, searchSt,
                   parseSt, embedSt, ingestSt, grpcSt>>

\* Initialize scores to 1 / n
RankInitialize ==
    /\ rankSt.pc = "start"
    /\ NodeCount(rankSt.graph) > 0
    /\ rankSt' = [rankSt EXCEPT
                    !.pc = "iterate",
                    !.scores = [node \in rankSt.graph.nodes |->
                                   Reduce(1, NodeCount(rankSt.graph))]]
    /\ UNCHANGED <<fuseSt, hybridSt, stitchSt, reasonSt, graphSt, citeSt, searchSt,
                   parseSt, embedSt, ingestSt, grpcSt>>

\* One pass of `for _ in 0..max_iterations`, with its convergence check
RankIterate ==
    /\ rankSt.pc = "iterate"
    /\ rankSt.iterations < rankSt.config.max_iterations
    /\ LET pass == Iteration(rankSt.graph, rankSt.config, rankSt.scores)
       IN  rankSt' = [rankSt EXCEPT
                        !.scores = pass.scores,
                        !.max_diff = pass.max_diff,
                        !.iterations = @ + 1,
                        !.pc = IF BelowEpsilon(pass.max_diff, rankSt.config.epsilon)
                               THEN "normalize" ELSE "iterate"]
    /\ UNCHANGED <<fuseSt, hybridSt, stitchSt, reasonSt, graphSt, citeSt, searchSt,
                   parseSt, embedSt, ingestSt, grpcSt>>

\* The loop ended (break, or the range is exhausted): normalize and return.
\* compute returns the score map and nothing else.
RankReturn ==
    /\ \/ rankSt.pc = "normalize"
       \/ rankSt.pc = "iterate" /\ rankSt.iterations >= rankSt.config.max_iterations
    /\ rankSt' = [rankSt EXCEPT
                    !.pc = "done",
                    !.returned = Some([scores |-> NormalizeScores(rankSt.graph,
                                                                  rankSt.scores)])]
    /\ UNCHANGED <<fuseSt, hybridSt, stitchSt, reasonSt, graphSt, citeSt, searchSt,
                   parseSt, embedSt, ingestSt, grpcSt>>

NextRank == RankEmpty \/ RankInitialize \/ RankIterate \/ RankReturn

SpecRank == InitRank /\ [][NextRank]_vars

(***************************************************************************)
(* context/synthesizer.rs: Synthesizer::extract_citations.  The response   *)
(* is a sequence of characters.                                            *)
(***************************************************************************)
Digits == <<"0", "1", "2", "3", "4", "5", "6", "7", "8", "9">>

\* \d
IsDigit(c) == \E i \in 1..Len(Digits) : Digits[i] = c

DigitValue(c) == (CHOOSE i \in 1..Len(Digits) : Digits[i] = c) - 1

RECURSIVE ParseUsize(_)
\* str::parse::<usize> of a non-empty run of digits
ParseUsize(ds) ==
    IF ds = <<>> THEN 0
    ELSE 10 * ParseUsize(SubSeq(ds, 1, Len(ds) - 1)) + DigitValue(ds[Len(ds)])

\* The match of \[(\d+)\] that starts at position i, if there is one:
\* `last` is the position of its closing bracket.
MatchEnd(s, i) ==
    IF i > Len(s) \/ s[i] # "[" THEN 0
    ELSE LET stop == CHOOSE j \in (i + 1)..(Len(s) + 1) :
                         /\ j = Len(s) + 1 \/ ~IsDigit(s[j])
                         /\ \A m \in (i + 1)..(j - 1) : IsDigit(s[m])
         IN  IF stop > i + 1 /\ stop <= Len(s) /\ s[stop] = "]" THEN stop ELSE 0

RECURSIVE CapturesIter(_, _)
\* captures_iter: the non-overlapping matches from position i on, leftmost
\* first; `start` is the byte offset of the match, `num` its group 1.
CapturesIter(s, i) ==
    IF i > Len(s) THEN <<>>
    ELSE LET last == MatchEnd(s, i)
         IN  IF last = 0 THEN CapturesIter(s, i + 1)
             ELSE <<[start |-> StrBytes(SubSeq(s, 1, i - 1)),
                     num |-> SubSeq(s, i + 1, last - 1)]>>
                  \o CapturesIter(s, last + 1)

PushCitationAlways(citations, contexts, cap) ==
    LET idx == ParseUsize(cap.num)
    IN  IF idx > 0 /\ idx <= Len(contexts)
        THEN Append(citations,
                    [index |-> idx,
                     paper_id |-> contexts[idx].paper_id,
                     title |-> contexts[idx].paper_title,
                     quote |-> TakeChars(contexts[idx].content, 200),
                     position |-> Some(cap.start)])
        ELSE citations

\* The body of the loop over the captures
PushCitation(citations, contexts, cap) ==
    LET idx == ParseUsize(cap.num)
    IN  IF /\ idx > 0 /\ idx <= Len(contexts)
           /\ ~\E i \in 1..Len(citations) : citations[i].index = idx
        THEN Append(citations,
                    [index |-> idx,
                     paper_id |-> contexts[idx].paper_id,
                     title |-> contexts[idx].paper_title,
                     quote |-> TakeChars(contexts[idx].content, 200),
                     position |-> Some(cap.start)])
        ELSE citations

RECURSIVE CollectCitations(_, _, _)
CollectCitations(citations, contexts, caps) ==
    IF caps = <<>> THEN citations
    ELSE CollectCitations(PushCitation(citations, contexts, caps[1]),
                          contexts, Tail(caps))

RECURSIVE InsertCitation(_, _)
InsertCitation(sorted, c) ==
    IF sorted = <<>> THEN <<c>>
    ELSE IF c.index < sorted[Len(sorted)].index
         THEN Append(InsertCitation(SubSeq(sorted, 1, Len(sorted) - 1), c),
                     sorted[Len(sorted)])
         ELSE Append(sorted, c)

RECURSIVE SortCitations(_)
\* citations.sort_by_key(|c| c.index), a stable sort
SortCitations(s) ==
    IF s = <<>> THEN <<>>
    ELSE InsertCitation(SortCitations(SubSeq(s, 1, Len(s) - 1)), s[Len(s)])

\* extract_citations
ExtractCitations(response, contexts) ==
    SortCitations(CollectCitations(<<>>, contexts, CapturesIter(response, 1)))

(***************************************************************************)
(* Specification SpecCite: extract_citations applied to every short        *)
(* response over a small alphabet and to 0, 1 or 2 contexts.               *)
(***************************************************************************)
\* most characters of a response
MaxResponseLen == 6

ResponseChars == {"[", "]", "0", "1", "2", "U+00E9"}

\* SynthesisContext number i
SynthesisContext(i) ==
    [paper_id |-> i, paper_title |-> <<"Paper", i>>,
     content |-> Repeat("x", 150 * i), relevance_score |-> <<9 - i, 10>>]

ContextLists == {[i \in 1..n |-> SynthesisContext(i)] : n \in 0..2}

InitCite ==
    /\ \E k \in 0..MaxResponseLen :
         \E r \in [1..k -> ResponseChars], cs \in ContextLists :
           citeSt = [pc |-> "call", response |-> r, contexts |-> cs,
                     citations |-> <<>>]
    /\ fuseSt = Idle
    /\ hybridSt = Idle
    /\ stitchSt = Idle
    /\ reasonSt = Idle
    /\ graphSt = Idle
    /\ rankSt = Idle
    /\ searchSt = Idle
    /\ parseSt = Idle
    /\ embedSt = Idle
    /\ ingestSt = Idle
    /\ grpcSt = Idle

\* self.extract_citations(&response, contexts)
ExtractCitationsCall ==
    /\ citeSt.pc = "call"
    /\ citeSt' = [citeSt EXCEPT
                    !.pc = "done",
                    !.citations = ExtractCitations(citeSt.response, citeSt.contexts)]
    /\ UNCHANGED <<fuseSt, hybridSt, stitchSt, reasonSt, graphSt, rankSt, searchSt,
                   parseSt, embedSt, ingestSt, grpcSt>>

NextCite == ExtractCitationsCall

SpecCite == InitCite /\ [][NextCite]_vars

(***************************************************************************)
(* gateway handlers/intelligence.rs: intelligent_search, one action per    *)
(* phase of the handler.                                                   *)
(***************************************************************************)
\* most rows hybrid_search returns
MaxHits == 4

Modes == {"quick", "standard", "deep", "synthesis"}

\* IntelligentSearchRequest: `query_len_ok` is the outcome of
\* validate(length(min = 1, max = 2000)) on the query.
IntelligentSearchRequests ==
    [query_len_ok : BOOLEAN, mode : Modes, max_hops : {1, 2},
     include_reasoning : BOOLEAN, include_synthesis : BOOLEAN, limit : {1, 2}]

\* Phase 3: take(limit) of the search results
TakeResults(rows, limit) == Truncate(rows, limit)

\* stitch_context: the first three results as windows
StitchContext(results) ==
    [windows |-> Truncate(results, 3), cross_references |-> <<>>, total_tokens |-> 0]

\* perform_reasoning
PerformReasoning(max_hops) ==
    [hops |-> <<[query |-> "query", facts_extracted |-> 5,
                 next_query |-> IF max_hops > 1 THEN Some("follow-up query") ELSE None]>>]

\* synthesize_answer, when it succeeds
SynthesizedAnswer(results) ==
    [answer |-> "answer", citations |-> Truncate(results, 3), confidence |-> <<75, 100>>]

\* IntelligentSearchResponse
MakeResponse(st) ==
    [results |-> st.results, context |-> st.context, reasoning |-> st.reasoning,
     synthesis |-> st.synthesis]

InitSearch ==
    /\ searchSt \in {[pc |-> "validate", request |-> r, results |-> <<>>,
                      context |-> None, reasoning |-> None, synthesis |-> None,
                      synthesis_failed |-> FALSE, returned |-> Pending] :
                     r \in IntelligentSearchRequests}
    /\ fuseSt = Idle
    /\ hybridSt = Idle
    /\ stitchSt = Idle
    /\ reasonSt = Idle
    /\ graphSt = Idle
    /\ rankSt = Idle
    /\ citeSt = Idle
    /\ parseSt = Idle
    /\ embedSt = Idle
    /\ ingestSt = Idle
    /\ grpcSt = Idle

\* request.validate()?
ValidateRequest ==
    /\ searchSt.pc = "validate"
    /\ searchSt' = IF searchSt.request.query_len_ok
                   THEN [searchSt EXCEPT !.pc = "retrieve"]
                   ELSE [searchSt EXCEPT !.pc = "error", !.returned = Err("Validation")]
    /\ UNCHANGED <<fuseSt, hybridSt, stitchSt, reasonSt, graphSt, rankSt, citeSt,
                   parseSt, embedSt, ingestSt, grpcSt>>

\* Phases 2 and 3: repo.hybrid_search(.., limit * 2, ..).await? and take(limit)
RetrieveResults ==
    /\ searchSt.pc = "retrieve"
    /\ \/ searchSt' = [searchSt EXCEPT !.pc = "error", !.returned = Err("DatabaseError")]
       \/ \E n \in 0..Min(searchSt.request.limit * 2, MaxHits) :
            searchSt' = [searchSt EXCEPT
                           !.pc = "stitch",
                           !.results = TakeResults([i \in 1..n |-> i],
                                                   searchSt.request.limit)]
    /\ UNCHANGED <<fuseSt, hybridSt, stitchSt, reasonSt, graphSt, rankSt, citeSt,
                   parseSt, embedSt, ingestSt, grpcSt>>

\* Phase 4: context stitching (deep or synthesis mode)
StitchPhase ==
    /\ searchSt.pc = "stitch"
    /\ searchSt' = [searchSt EXCEPT
                      !.pc = "reason",
                      !.context = IF searchSt.request.mode \in {"deep", "synthesis"}
                                  THEN Some(StitchContext(searchSt.results))
                                  ELSE None]
    /\ UNCHANGED <<fuseSt, hybridSt, stitchSt, reasonSt, graphSt, rankSt, citeSt,
                   parseSt, embedSt, ingestSt, grpcSt>>

\* Phase 5: multi-hop reasoning (deep mode)
ReasoningPhase ==
    /\ searchSt.pc = "reason"
    /\ searchSt' = [searchSt EXCEPT
                      !.pc = "synthesize",
                      !.reasoning = IF /\ searchSt.request.include_reasoning
                                       /\ searchSt.request.mode = "deep"
                                    THEN Some(PerformReasoning(searchSt.request.max_hops))
                                    ELSE None]
    /\ UNCHANGED <<fuseSt, hybridSt, stitchSt, reasonSt, graphSt, rankSt, citeSt,
                   parseSt, embedSt, ingestSt, grpcSt>>

WantsSynthesis ==
    searchSt.request.include_synthesis /\ searchSt.request.mode = "synthesis"

\* Phase 6 not asked for: synthesis = None
SynthesisSkipped ==
    /\ searchSt.pc = "synthesize"
    /\ ~WantsSynthesis
    /\ searchSt' = [searchSt EXCEPT !.pc = "respond"]
    /\ UNCHANGED <<fuseSt, hybridSt, stitchSt, reasonSt, graphSt, rankSt, citeSt,
                   parseSt, embedSt, ingestSt, grpcSt>>

\* Phase 6: Some(synthesize_answer(..).await?), the step answering Ok
SynthesisOk ==
    /\ searchSt.pc = "synthesize"
    /\ WantsSynthesis
    /\ searchSt' = [searchSt EXCEPT
                      !.pc = "respond",
                      !.synthesis = Some(SynthesizedAnswer(searchSt.results))]
    /\ UNCHANGED <<fuseSt, hybridSt, stitchSt, reasonSt, graphSt, rankSt, citeSt,
                   parseSt, embedSt, ingestSt, grpcSt>>

\* Phase 6: Some(synthesize_answer(..).await?), the step answering Err: the
\* `?` returns the error from the handler.
SynthesisFails ==
    /\ searchSt.pc = "synthesize"
    /\ WantsSynthesis
    /\ searchSt' = [searchSt EXCEPT
                      !.pc = "error",
                      !.synthesis_failed = TRUE,
                      !.returned = Err("Internal")]
    /\ UNCHANGED <<fuseSt, hybridSt, stitchSt, reasonSt, graphSt, rankSt, citeSt,
                   parseSt, embedSt, ingestSt, grpcSt>>

\* Ok(Json(IntelligentSearchResponse { .. }))
Respond ==
    /\ searchSt.pc = "respond"
    /\ searchSt' = [searchSt EXCEPT
                      !.pc = "done",
                      !.returned = [ok |-> TRUE, response |-> MakeResponse(searchSt)]]
    /\ UNCHANGED <<fuseSt, hybridSt, stitchSt, reasonSt, graphSt, rankSt, citeSt,
                   parseSt, embedSt, ingestSt, grpcSt>>

NextSearch ==
    \/ ValidateRequest
    \/ RetrieveResults
    \/ StitchPhase
    \/ ReasoningPhase
    \/ SynthesisSkipped
    \/ SynthesisOk
    \/ SynthesisFails
    \/ Respond

SpecSearch == InitSearch /\ [][NextSearch]_vars

(***************************************************************************)
(* QueryParser (common/src/context/query_parser.rs)                        *)
(***************************************************************************)
\* str::starts_with
StartsWith(s, prefix) ==
    Len(s) >= Len(prefix) /\ SubSeq(s, 1, Len(prefix)) = prefix

\* QueryParserConfig::default
DefaultQueryParserConfig ==
    [enable_expansion |-> TRUE, max_expansions |-> 5,
     min_entity_confidence |-> <<3, 5>>, use_llm_fallback |-> TRUE]

\* detect_intent
DetectIntent(query) ==
    LET query_lower == LowerStr(query)
    IN  IF \/ Contains(query_lower, <<" ", "v", "s", " ">>)
           \/ Contains(query_lower, <<" ", "v", "e", "r", "s", "u", "s", " ">>)
           \/ Contains(query_lower, <<"c", "o", "m", "p", "a", "r", "e">>)
           \/ Contains(query_lower, <<"d", "i", "f", "f", "e", "r", "e", "n", "c", "e", " ", "b", "e", "t", "w", "e", "e", "n">>)
        THEN "Comparison"
        ELSE IF \/ StartsWith(query_lower, <<"h", "o", "w", " ", "t", "o">>)
                \/ StartsWith(query_lower, <<"h", "o", "w", " ", "d", "o">>)
                \/ Contains(query_lower, <<"s", "t", "e", "p", " ", "b", "y", " ", "s", "t", "e", "p">>)
                \/ Contains(query_lower, <<"i", "m", "p", "l", "e", "m", "e", "n", "t">>)
        THEN "Procedural"
        ELSE IF \/ Contains(query_lower, <<"s", "t", "a", "t", "e", " ", "o", "f", " ", "t", "h", "e", " ", "a", "r", "t">>)
                \/ Contains(query_lower, <<"s", "u", "r", "v", "e", "y">>)
                \/ Contains(query_lower, <<"r", "e", "v", "i", "e", "w", " ", "o", "f">>)
                \/ Contains(query_lower, <<"o", "v", "e", "r", "v", "i", "e", "w">>)
        THEN "Survey"
        ELSE IF \/ StartsWith(query_lower, <<"w", "h", "a", "t", " ", "i", "s">>)
                \/ StartsWith(query_lower, <<"w", "h", "o", " ", "i", "s">>)
                \/ StartsWith(query_lower, <<"w", "h", "e", "n">>)
                \/ StartsWith(query_lower, <<"d", "e", "f", "i", "n", "e">>)
        THEN "Factual"
        ELSE IF \/ StartsWith(query_lower, <<"w", "h", "y">>)
                \/ StartsWith(query_lower, <<"e", "x", "p", "l", "a", "i", "n">>)
                \/ Contains(query_lower, <<"u", "n", "d", "e", "r", "s", "t", "a", "n", "d">>)
        THEN "Exploratory"
        ELSE "General"

\* load_stop_words
StopWords ==
    {<<"a">>,
     <<"a", "n">>,
     <<"t", "h", "e">>,
     <<"i", "s">>,
     <<"a", "r", "e">>,
     <<"w", "a", "s">>,
     <<"w", "e", "r", "e">>,
     <<"b", "e">>,
     <<"b", "e", "e", "n">>,
     <<"i", "n">>,
     <<"o", "n">>,
     <<"a", "t">>,
     <<"t", "o">>,
     <<"f", "o", "r">>,
     <<"o", "f">>,
     <<"w", "i", "t", "h">>,
     <<"b", "y">>,
     <<"f", "r", "o", "m">>,
     <<"a", "n", "d">>,
     <<"o", "r">>,
     <<"b", "u", "t">>,
     <<"n", "o", "t">>,
     <<"t", "h", "i", "s">>,
     <<"t", "h", "a", "t">>,
     <<"t", "h", "e", "s", "e">>,
     <<"t", "h", "o", "s", "e">>,
     <<"i", "t">>,
     <<"i", "t", "s">>,
     <<"a", "s">>,
     <<"d", "o">>,
     <<"d", "o", "e", "s">>,
     <<"d", "i", "d">>,
     <<"h", "a", "s">>,
     <<"h", "a", "v", "e">>,
     <<"h", "a", "d">>,
     <<"c", "a", "n">>,
     <<"c", "o", "u", "l", "d">>,
     <<"w", "i", "l", "l">>,
     <<"w", "o", "u", "l", "d">>,
     <<"s", "h", "o", "u", "l", "d">>,
     <<"m", "a", "y">>,
     <<"m", "i", "g", "h", "t">>}

\* is_stop_word
IsStopWord(word) == LowerStr(word) \in StopWords

\* is_method_keyword
IsMethodKeyword(word) ==
    LowerStr(word) \in
    {<<"a", "l", "g", "o", "r", "i", "t", "h", "m">>,
     <<"m", "o", "d", "e", "l">>,
     <<"n", "e", "t", "w", "o", "r", "k">>,
     <<"t", "r", "a", "n", "s", "f", "o", "r", "m", "e", "r">>,
     <<"c", "n", "n">>,
     <<"r", "n", "n">>,
     <<"l", "s", "t", "m">>,
     <<"b", "e", "r", "t">>,
     <<"g", "p", "t">>,
     <<"a", "t", "t", "e", "n", "t", "i", "o", "n">>,
     <<"e", "m", "b", "e", "d", "d", "i", "n", "g">>,
     <<"c", "l", "a", "s", "s", "i", "f", "i", "e", "r">>,
     <<"r", "e", "g", "r", "e", "s", "s", "i", "o", "n">>,
     <<"c", "l", "u", "s", "t", "e", "r", "i", "n", "g">>,
     <<"d", "e", "t", "e", "c", "t", "i", "o", "n">>,
     <<"s", "e", "g", "m", "e", "n", "t", "a", "t", "i", "o", "n">>}

\* word.parse::<i32>() gives a year in 1900..=2100: an optional '+', then
\* digits that are, leading zeros apart, four digits in that range.  ('-'
\* gives a value below 1900; a run too long for i32 fails to parse, and a
\* failed parse matches none of the temporal terms.)
IsYear(word) ==
    LET ds == IF word # <<>> /\ Head(word) = "+" THEN Tail(word) ELSE word
        nonzero == {i \in 1..Len(ds) : ds[i] # "0"}
        first == IF nonzero = {} THEN Len(ds) + 1
                 ELSE CHOOSE i \in nonzero : \A j \in nonzero : i <= j
    IN  /\ ds # <<>>
        /\ \A i \in 1..Len(ds) : IsDigit(ds[i])
        /\ Len(ds) - first + 1 = 4
        /\ ParseUsize(SubSeq(ds, first, Len(ds))) \in 1900..2100

\* is_temporal
IsTemporal(word) ==
    \/ IsYear(word)
    \/ LowerStr(word) \in
       {<<"r", "e", "c", "e", "n", "t">>,
        <<"l", "a", "t", "e", "s", "t">>,
        <<"n", "e", "w">>,
        <<"e", "a", "r", "l", "y">>,
        <<"c", "u", "r", "r", "e", "n", "t">>}

\* is_known_concept
IsKnownConcept(bigram) ==
    LowerStr(bigram) \in
    {<<"m", "a", "c", "h", "i", "n", "e", " ", "l", "e", "a", "r", "n",
       "i", "n", "g">>,
     <<"d", "e", "e", "p", " ", "l", "e", "a", "r", "n", "i", "n", "g">>,
     <<"n", "e", "u", "r", "a", "l", " ", "n", "e", "t", "w", "o", "r",
       "k">>,
     <<"n", "a", "t", "u", "r", "a", "l", " ", "l", "a", "n", "g", "u",
       "a", "g", "e">>,
     <<"c", "o", "m", "p", "u", "t", "e", "r", " ", "v", "i", "s", "i",
       "o", "n">>,
     <<"r", "e", "i", "n", "f", "o", "r", "c", "e", "m", "e", "n", "t",
       " ", "l", "e", "a", "r", "n", "i", "n", "g">>,
     <<"t", "r", "a", "n", "s", "f", "e", "r", " ", "l", "e", "a", "r",
       "n", "i", "n", "g">>,
     <<"a", "t", "t", "e", "n", "t", "i", "o", "n", " ", "m", "e", "c",
       "h", "a", "n", "i", "s", "m">>,
     <<"l", "a", "n", "g", "u", "a", "g", "e", " ", "m", "o", "d", "e",
       "l">>,
     <<"k", "n", "o", "w", "l", "e", "d", "g", "e", " ", "g", "r", "a",
       "p", "h">>,
     <<"g", "r", "a", "p", "h", " ", "n", "e", "u", "r", "a", "l">>,
     <<"g", "e", "n", "e", "r", "a", "t", "i", "v", "e", " ", "m", "o",
       "d", "e", "l">>}

Entity(text, entity_type, confidence) ==
    [text |-> text, entity_type |-> entity_type, confidence |-> confidence,
     span |-> None]

RECURSIVE EntitiesFrom(_, _)
\* The while loop of extract_entities from index i (words are numbered from 1
\* here): what it pushes from there on.
EntitiesFrom(words, i) ==
    IF i > Len(words) THEN <<>>
    ELSE LET word == words[i]
             method == IF IsMethodKeyword(word)
                       THEN <<Entity(word, "Method", <<7, 10>>)>> ELSE <<>>
             temporal == IF IsTemporal(word)
                         THEN <<Entity(word, "Temporal", <<9, 10>>)>> ELSE <<>>
             bigram == IF i + 1 <= Len(words)
                       THEN word \o <<" ">> \o words[i + 1] ELSE <<>>
             term == IF StrBytes(word) > 3 /\ ~IsStopWord(word)
                     THEN <<Entity(word, "Term", <<1, 2>>)>> ELSE <<>>
         IN  IF IsStopWord(word) THEN EntitiesFrom(words, i + 1)
             ELSE IF i + 1 <= Len(words) /\ IsKnownConcept(bigram)
             THEN method \o temporal
                  \o <<Entity(bigram, "Concept", <<17, 20>>)>>
                  \o EntitiesFrom(words, i + 2)
             ELSE method \o temporal \o term \o EntitiesFrom(words, i + 1)

\* extract_entities
ExtractEntities(config, query) ==
    SelectSeq(EntitiesFrom(SplitWhitespace(query), 1),
              LAMBDA e : ~RLt(e.confidence, config.min_entity_confidence))

\* load_default_synonyms
Synonyms ==
    (<<"m", "l">> :>
           <<<<"m", "a", "c", "h", "i", "n", "e", " ", "l", "e", "a", "r",
               "n", "i", "n", "g">>>>)
    @@ (<<"n", "l", "p">> :>
           <<<<"n", "a", "t", "u", "r", "a", "l", " ", "l", "a", "n", "g",
               "u", "a", "g", "e", " ", "p", "r", "o", "c", "e", "s", "s",
               "i", "n", "g">>>>)
    @@ (<<"c", "v">> :>
           <<<<"c", "o", "m", "p", "u", "t", "e", "r", " ", "v", "i", "s",
               "i", "o", "n">>>>)
    @@ (<<"d", "l">> :>
           <<<<"d", "e", "e", "p", " ", "l", "e", "a", "r", "n", "i", "n",
               "g">>>>)
    @@ (<<"l", "l", "m">> :>
           <<<<"l", "a", "r", "g", "e", " ", "l", "a", "n", "g", "u", "a",
               "g", "e", " ", "m", "o", "d", "e", "l">>>>)
    @@ (<<"r", "l">> :>
           <<<<"r", "e", "i", "n", "f", "o", "r", "c", "e", "m", "e", "n",
               "t", " ", "l", "e", "a", "r", "n", "i", "n", "g">>>>)
    @@ (<<"g", "a", "n">> :>
           <<<<"g", "e", "n", "e", "r", "a", "t", "i", "v", "e", " ", "a",
               "d", "v", "e", "r", "s", "a", "r", "i", "a", "l", " ", "n",
               "e", "t", "w", "o", "r", "k">>>>)
    @@ (<<"v", "a", "e">> :>
           <<<<"v", "a", "r", "i", "a", "t", "i", "o", "n", "a", "l", " ",
               "a", "u", "t", "o", "e", "n", "c", "o", "d", "e", "r">>>>)

RECURSIVE ExpansionsFrom(_, _, _)
\* The for loop of expand_query over the words left, `expansions` pushed so far.
ExpansionsFrom(config, words, expansions) ==
    IF words = <<>> THEN expansions
    ELSE LET key == LowerStr(Head(words))
             syns == IF key \in DOMAIN Synonyms
                     THEN Truncate(Synonyms[key], config.max_expansions)
                     ELSE <<>>
             seen == {expansions[i] : i \in 1..Len(expansions)}
         IN  ExpansionsFrom(config, Tail(words),
                            expansions \o Dedup(syns, seen))

\* expand_query
ExpandQuery(config, query) ==
    Truncate(ExpansionsFrom(config, SplitWhitespace(query), <<>>),
             config.max_expansions)

RECURSIVE SumEntityConfidence(_)
SumEntityConfidence(entities) ==
    IF entities = <<>> THEN Zero
    ELSE RSum(Head(entities).confidence, SumEntityConfidence(Tail(entities)))

\* calculate_confidence
CalculateConfidence(intent, entities) ==
    LET intent_conf == IF intent = "General" THEN <<1, 2>> ELSE <<4, 5>>
        entity_conf == IF entities = <<>> THEN <<2, 5>>
                       ELSE RQuot(SumEntityConfidence(entities),
                                  <<Len(entities), 1>>)
    IN  RQuot(RSum(intent_conf, entity_conf), <<2, 1>>)

\* QueryParser::parse: the Result it returns
Parse(config, raw) ==
    LET query == LowerStr(Trim(raw))
        intent == DetectIntent(query)
        entities == ExtractEntities(config, query)
        expanded_terms == IF config.enable_expansion
                          THEN ExpandQuery(config, query) ELSE <<>>
    IN  [ok |-> TRUE,
         understanding |->
            [original_query |-> query, intent |-> intent,
             entities |-> entities, expanded_terms |-> expanded_terms,
             confidence |-> CalculateConfidence(intent, entities)]]

(***************************************************************************)
(* QueryParser::parse, called once on a query                              *)
(***************************************************************************)
MaxPhrases == 2

\* The phrases the queries are put together from.
QueryPhrases ==
    {<<"H", "o", "w", " ", "d", "o", "e", "s">>,
     <<"h", "o", "w", " ", "t", "o">>,
     <<"B", "E", "R", "T", " ", "v", "s", " ", "G", "P", "T">>,
     <<"C", "o", "m", "p", "a", "r", "e">>,
     <<"i", "m", "p", "l", "e", "m", "e", "n", "t">>,
     <<"s", "u", "r", "v", "e", "y">>,
     <<"W", "h", "a", "t", " ", "i", "s">>,
     <<"w", "h", "e", "n">>,
     <<"w", "h", "y">>,
     <<"e", "x", "p", "l", "a", "i", "n">>,
     <<"u", "n", "d", "e", "r", "s", "t", "a", "n", "d">>,
     <<"t", "r", "a", "n", "s", "f", "o", "r", "m", "e", "r">>,
     <<"a", "t", "t", "e", "n", "t", "i", "o", "n", " ", "m", "e", "c",
       "h", "a", "n", "i", "s", "m">>,
     <<"2", "0", "1", "7">>,
     <<"m", "l">>,
     <<"l", "e", "a", "r", "n">>}

\* The queries of test_query_parsing, test_comparison_intent and
\* test_procedural_intent.
HowDoesQuery ==
    <<"H", "o", "w", " ", "d", "o", "e", "s", " ", "t", "r", "a", "n", "s",
      "f", "o", "r", "m", "e", "r", " ", "a", "t", "t", "e", "n", "t", "i",
      "o", "n", " ", "m", "e", "c", "h", "a", "n", "i", "s", "m", " ", "w",
      "o", "r", "k", "?">>

CompareQuery ==
    <<"C", "o", "m", "p", "a", "r", "e", " ", "B", "E", "R", "T", " ", "v",
      "s", " ", "G", "P", "T", " ", "f", "o", "r", " ", "t", "e", "x", "t",
      " ", "c", "l", "a", "s", "s", "i", "f", "i", "c", "a", "t", "i", "o",
      "n">>

HowToQuery ==
    <<"H", "o", "w", " ", "t", "o", " ", "i", "m", "p", "l", "e", "m", "e",
      "n", "t", " ", "a", "t", "t", "e", "n", "t", "i", "o", "n", " ", "m",
      "e", "c", "h", "a", "n", "i", "s", "m">>

\* A query with white space around it.
Padded(query) == <<" ", "\n">> \o query \o <<" ">>

QueryParserConfigs ==
    {DefaultQueryParserConfig,
     [DefaultQueryParserConfig EXCEPT !.enable_expansion = FALSE]}

InitParse ==
    /\ \E config \in QueryParserConfigs :
         \/ \E k \in 0..MaxPhrases :
              \E phrases \in [1..k -> QueryPhrases], padded \in BOOLEAN :
                parseSt = [pc |-> "call", config |-> config,
                           query |-> IF padded THEN Padded(JoinSpace(phrases))
                                     ELSE JoinSpace(phrases)]
         \/ \E query \in {HowDoesQuery, CompareQuery, HowToQuery} :
              parseSt = [pc |-> "call", config |-> config, query |-> query]
    /\ fuseSt = Idle
    /\ hybridSt = Idle
    /\ stitchSt = Idle
    /\ reasonSt = Idle
    /\ graphSt = Idle
    /\ rankSt = Idle
    /\ citeSt = Idle
    /\ searchSt = Idle
    /\ embedSt = Idle
    /\ ingestSt = Idle
    /\ grpcSt = Idle

\* parser.parse(query).await
ParseCall ==
    /\ parseSt.pc = "call"
    /\ parseSt' = [pc |-> "done", config |-> parseSt.config,
                   query |-> parseSt.query,
                   result |-> Parse(parseSt.config, parseSt.query)]
    /\ UNCHANGED <<fuseSt, hybridSt, stitchSt, reasonSt, graphSt, rankSt,
                   citeSt, searchSt, embedSt, ingestSt, grpcSt>>

NextParse == ParseCall

SpecParse == InitParse /\ [][NextParse]_vars

(***************************************************************************)
(* embedding-worker: the polling loop of main and process_job              *)
(* (embedding-worker/src/main.rs, processor.rs; Repository::create_chunks) *)
(***************************************************************************)
\* most chunks in one embedding job
MaxJobChunks == 2

\* most deliveries of one message
MaxDeliveries == 2

\* EmbeddingConfig::default().batch_size
BatchSize == 20

\* MAX_FAILURES of the circuit breaker
MAX_FAILURES == 5

JobIds == {"job1", "job2"}

\* The EmbeddingJob with `n` chunks, indexed from 0, of the paper of `job_id`.
EmbeddingJob(job_id, n) ==
    [job_id |-> job_id,
     paper_id |-> IF job_id = "job1" THEN "paper1" ELSE "paper2",
     chunks |-> [i \in 1..n |-> [index |-> i - 1]]]

\* The chunks table: the number of rows per (paper_id, chunk_index).  Every
\* row create_chunks inserts has a fresh id (Uuid::new_v4), and id is the
\* table's only key (db/models/chunk.rs), so an INSERT always adds a row.
InsertRow(chunks, paper_id, index) ==
    LET key == <<paper_id, index>>
    IN  [k \in DOMAIN chunks \cup {key} |->
            IF k = key
            THEN (IF k \in DOMAIN chunks THEN chunks[k] ELSE 0) + 1
            ELSE chunks[k]]

InitEmbed ==
    /\ \E n1 \in 1..MaxJobChunks, n2 \in 1..MaxJobChunks :
         embedSt = [pc |-> "poll",
                    payload |-> [j \in JobIds |->
                                    EmbeddingJob(j, IF j = "job1" THEN n1 ELSE n2)],
                    queue |-> JobIds,
                    receive_count |-> [j \in JobIds |-> 0],
                    messages |-> <<>>,
                    all_chunk_data |-> <<>>,
                    processed |-> 0,
                    stored |-> 0,
                    chunks |-> <<>>,
                    job_status |-> [j \in JobIds |-> "Embedding"],
                    chunks_processed |-> [j \in JobIds |-> 0],
                    consecutive_failures |-> 0]
    /\ fuseSt = Idle
    /\ hybridSt = Idle
    /\ stitchSt = Idle
    /\ reasonSt = Idle
    /\ graphSt = Idle
    /\ rankSt = Idle
    /\ citeSt = Idle
    /\ searchSt = Idle
    /\ parseSt = Idle
    /\ ingestSt = Idle
    /\ grpcSt = Idle

OtherThanEmbed ==
    <<fuseSt, hybridSt, stitchSt, reasonSt, graphSt, rankSt, citeSt,
      searchSt, parseSt, ingestSt, grpcSt>>

\* The job being processed.
CurrentJob == embedSt.payload[Head(embedSt.messages)]

\* The for loop over the received messages moves to the next message, or the
\* polling loop starts over; process_job starts with empty accumulators.
NextMessage(st) ==
    [st EXCEPT !.messages = Tail(@),
               !.pc = IF Tail(st.messages) = <<>> THEN "poll" ELSE "embed",
               !.all_chunk_data = <<>>, !.processed = 0, !.stored = 0]

\* Err(e) of process_job: the failure is counted and the message is left on
\* the queue, to be delivered again.
JobFailed(st) ==
    NextMessage([st EXCEPT !.consecutive_failures = @ + 1])

\* consecutive_failures >= MAX_FAILURES: sleep, then reset
CircuitBreaker ==
    /\ embedSt.pc = "poll"
    /\ embedSt.consecutive_failures >= MAX_FAILURES
    /\ embedSt' = [embedSt EXCEPT !.consecutive_failures = 0]
    /\ UNCHANGED OtherThanEmbed

\* ctrl_c ends the loop
Shutdown ==
    /\ embedSt.pc = "poll"
    /\ embedSt.consecutive_failures < MAX_FAILURES
    /\ embedSt' = [embedSt EXCEPT !.pc = "stopped"]
    /\ UNCHANGED OtherThanEmbed

\* embedding_queue.receive() answers Err
ReceiveFails ==
    /\ embedSt.pc = "poll"
    /\ embedSt.consecutive_failures < MAX_FAILURES
    /\ embedSt' = [embedSt EXCEPT !.consecutive_failures = @ + 1]
    /\ UNCHANGED OtherThanEmbed

\* embedding_queue.receive() answers Ok(messages): any messages that are on
\* the queue, a message that was not deleted being delivered again.
Receive ==
    /\ embedSt.pc = "poll"
    /\ embedSt.consecutive_failures < MAX_FAILURES
    /\ \E messages \in InjSeqs({j \in embedSt.queue :
                                    embedSt.receive_count[j] < MaxDeliveries},
                                Cardinality(JobIds)) \ {<<>>} :
         embedSt' = [embedSt EXCEPT
             !.pc = "embed",
             !.messages = messages,
             !.receive_count =
                 [j \in JobIds |-> IF \E i \in 1..Len(messages) : messages[i] = j
                                   THEN @[j] + 1 ELSE @[j]],
             !.all_chunk_data = <<>>, !.processed = 0, !.stored = 0]
    /\ UNCHANGED OtherThanEmbed

\* One batch of process_job: embed_batch answers Ok, the chunks are paired
\* with their embeddings, and update_job_progress is tried (its failure is
\* only logged).
EmbedBatch ==
    /\ embedSt.pc = "embed"
    /\ embedSt.processed < Len(CurrentJob.chunks)
    /\ \E progress_ok \in BOOLEAN :
         LET job == CurrentJob
             last == Min(embedSt.processed + BatchSize, Len(job.chunks))
             batch == SubSeq(job.chunks, embedSt.processed + 1, last)
         IN  embedSt' = [embedSt EXCEPT
                 !.all_chunk_data = @ \o [i \in 1..Len(batch) |-> batch[i].index],
                 !.processed = last,
                 !.chunks_processed[job.job_id] = IF progress_ok THEN last ELSE @,
                 !.pc = IF last = Len(job.chunks) THEN "store" ELSE "embed"]
    /\ UNCHANGED OtherThanEmbed

\* embed_batch answers Err: process_job returns EmbeddingFailed
EmbedFails ==
    /\ embedSt.pc = "embed"
    /\ embedSt.processed < Len(CurrentJob.chunks)
    /\ embedSt' = JobFailed(embedSt)
    /\ UNCHANGED OtherThanEmbed

\* create_chunks: the INSERT of the next chunk succeeds
InsertChunk ==
    /\ embedSt.pc = "store"
    /\ embedSt.stored < Len(embedSt.all_chunk_data)
    /\ embedSt' = [embedSt EXCEPT
           !.chunks = InsertRow(@, CurrentJob.paper_id,
                                embedSt.all_chunk_data[embedSt.stored + 1]),
           !.stored = @ + 1,
           !.pc = IF embedSt.stored + 1 = Len(embedSt.all_chunk_data)
                  THEN "status" ELSE "store"]
    /\ UNCHANGED OtherThanEmbed

\* create_chunks: an INSERT fails; the rows inserted before it stay (each
\* statement is executed on its own) and process_job returns DatabaseError
InsertFails ==
    /\ embedSt.pc = "store"
    /\ embedSt.stored < Len(embedSt.all_chunk_data)
    /\ embedSt' = JobFailed(embedSt)
    /\ UNCHANGED OtherThanEmbed

\* update_job_status(job_id, Completed) succeeds: process_job returns Ok(())
StatusUpdated ==
    /\ embedSt.pc = "status"
    /\ embedSt' = [embedSt EXCEPT
           !.job_status[CurrentJob.job_id] = "Completed",
           !.consecutive_failures = 0,
           !.pc = "delete"]
    /\ UNCHANGED OtherThanEmbed

\* update_job_status fails: process_job returns DatabaseError
StatusFails ==
    /\ embedSt.pc = "status"
    /\ embedSt' = JobFailed(embedSt)
    /\ UNCHANGED OtherThanEmbed

\* embedding_queue.delete(&receipt_handle) succeeds
DeleteMessage ==
    /\ embedSt.pc = "delete"
    /\ embedSt' = NextMessage([embedSt EXCEPT !.queue = @ \ {Head(embedSt.messages)}])
    /\ UNCHANGED OtherThanEmbed

\* embedding_queue.delete fails: logged, the message stays on the queue
DeleteFails ==
    /\ embedSt.pc = "delete"
    /\ embedSt' = NextMessage(embedSt)
    /\ UNCHANGED OtherThanEmbed

NextEmbed ==
    \/ CircuitBreaker
    \/ Shutdown
    \/ ReceiveFails
    \/ Receive
    \/ EmbedBatch
    \/ EmbedFails
    \/ InsertChunk
    \/ InsertFails
    \/ StatusUpdated
    \/ StatusFails
    \/ DeleteMessage
    \/ DeleteFails

SpecEmbed == InitEmbed /\ [][NextEmbed]_vars

(***************************************************************************)
(* gateway/src/handlers/papers.rs: concurrent create_paper requests        *)
(***************************************************************************)
\* most create_paper requests in flight
MaxRequests == 2

Tenants == {"tenant1", "tenant2"}

IdempotencyKeys == {None, Some("key1"), Some("key2")}

\* A CreatePaperRequest as the handler sees it: the caller's tenant, the
\* idempotency key, and whether request.paper.validate() accepts the paper.
CreatePaperRequests ==
    {[tenant_id |-> t, idempotency_key |-> k, valid |-> v] :
        t \in Tenants, k \in IdempotencyKeys, v \in BOOLEAN}

\* Repository::find_job_by_idempotency_key: .one() of the rows with that
\* tenant and key (the first such row), or None.
FindJobByIdempotencyKey(jobs, tenant_id, key) ==
    LET hits == {i \in 1..Len(jobs) :
                    /\ jobs[i].tenant_id = tenant_id
                    /\ jobs[i].idempotency_key = Some(key)}
    IN  IF hits = {} THEN None
        ELSE Some(jobs[CHOOSE i \in hits : \A j \in hits : i <= j])

\* Repository::create_job: the row it inserts, with a fresh id (Uuid::new_v4).
\* The entity declares id as the only key (db/models/ingestion_job.rs).
CreateJob(jobs, tenant_id, idempotency_key) ==
    [id |-> Len(jobs) + 1, tenant_id |-> tenant_id, status |-> "pending",
     idempotency_key |-> idempotency_key]

CreatePaperResponse(status_code, job_id, status, estimated_completion_ms) ==
    [ok |-> TRUE, status_code |-> status_code, job_id |-> job_id,
     status |-> status, estimated_completion_ms |-> estimated_completion_ms]

InitIngest ==
    /\ \E n \in 1..MaxRequests : \E requests \in [1..n -> CreatePaperRequests] :
         ingestSt = [pc |-> "serving",
                     step |-> [r \in 1..n |-> "validate"],
                     requests |-> requests,
                     jobs |-> <<>>,
                     response |-> [r \in 1..n |-> Pending]]
    /\ fuseSt = Idle
    /\ hybridSt = Idle
    /\ stitchSt = Idle
    /\ reasonSt = Idle
    /\ graphSt = Idle
    /\ rankSt = Idle
    /\ citeSt = Idle
    /\ searchSt = Idle
    /\ parseSt = Idle
    /\ embedSt = Idle
    /\ grpcSt = Idle

OtherThanIngest ==
    <<fuseSt, hybridSt, stitchSt, reasonSt, graphSt, rankSt, citeSt,
      searchSt, parseSt, embedSt, grpcSt>>

Handlers == DOMAIN ingestSt.step

Returns(r, response) ==
    ingestSt' = [ingestSt EXCEPT !.step[r] = "done", !.response[r] = response]

\* request.paper.validate()?; without an idempotency key the lookup is skipped
ValidatePaper ==
    \E r \in Handlers :
        /\ ingestSt.step[r] = "validate"
        /\ IF ~ingestSt.requests[r].valid
           THEN Returns(r, Err("Validation"))
           ELSE ingestSt' = [ingestSt EXCEPT
                    !.step[r] = IF ingestSt.requests[r].idempotency_key = None
                              THEN "create" ELSE "find"]
        /\ UNCHANGED OtherThanIngest

\* repo.find_job_by_idempotency_key(..).await? answers: an existing job is
\* returned with 200 OK, otherwise the handler goes on to create one
FindExisting ==
    \E r \in Handlers :
        /\ ingestSt.step[r] = "find"
        /\ LET request == ingestSt.requests[r]
               existing_job == FindJobByIdempotencyKey(ingestSt.jobs, request.tenant_id,
                                                       request.idempotency_key[1])
           IN  IF existing_job # None
               THEN Returns(r, CreatePaperResponse("OK", existing_job[1].id,
                                                   existing_job[1].status, 0))
               ELSE ingestSt' = [ingestSt EXCEPT !.step[r] = "create"]
        /\ UNCHANGED OtherThanIngest

\* the lookup fails with a database error
FindFails ==
    \E r \in Handlers :
        /\ ingestSt.step[r] = "find"
        /\ Returns(r, Err("DatabaseError"))
        /\ UNCHANGED OtherThanIngest

\* repo.create_job(..).await? inserts the job; 202 ACCEPTED
CreateJobCall ==
    \E r \in Handlers :
        /\ ingestSt.step[r] = "create"
        /\ LET request == ingestSt.requests[r]
               job == CreateJob(ingestSt.jobs, request.tenant_id,
                                request.idempotency_key)
           IN  ingestSt' = [ingestSt EXCEPT
                   !.jobs = Append(@, job),
                   !.step[r] = "done",
                   !.response[r] = CreatePaperResponse("ACCEPTED", job.id,
                                                       "pending", 5000)]
        /\ UNCHANGED OtherThanIngest

\* the insert fails with a database error
CreateJobFails ==
    \E r \in Handlers :
        /\ ingestSt.step[r] = "create"
        /\ Returns(r, Err("DatabaseError"))
        /\ UNCHANGED OtherThanIngest

NextIngest ==
    \/ ValidatePaper
    \/ FindExisting
    \/ FindFails
    \/ CreateJobCall
    \/ CreateJobFails

SpecIngest == InitIngest /\ [][NextIngest]_vars

(***************************************************************************)
(* search/src/grpc.rs: SearchGrpcService::search with the result cache     *)
(***************************************************************************)
\* most Search requests served
MaxSearches == 2

\* ProtoSearchRequest.  tenant_id "tenant1" parses as a Uuid, "bad" does not;
\* min_score 0.0 and an empty query_embedding (None here) mean "not given".
ProtoSearchRequests ==
    {[tenant_id |-> t, query |-> q, mode |-> m, limit |-> n,
      min_score |-> s, query_embedding |-> e] :
        t \in {"tenant1", "bad"}, q \in {"attention", "transformers"},
        m \in {"Vector", "Bm25", "Hybrid"}, n \in {2},
        s \in {Zero, <<17, 20>>},
        e \in {None, Some("embedding1"), Some("embedding2")}}

\* cache_key: the tenant, the mode and a hash of (query, mode, limit); the
\* hash is taken as telling any two such triples apart.
CacheKey(req) == <<req.tenant_id, req.mode, <<req.query, req.mode, req.limit>>>>

\* convert_mode
ConvertMode(mode) ==
    IF mode = "Vector" THEN "Vector" ELSE IF mode = "Bm25" THEN "BM25" ELSE "Hybrid"

\* The SearchRequest built from the proto request.
BuildSearchRequest(req) ==
    [tenant_id |-> req.tenant_id, query |-> req.query,
     query_embedding |-> req.query_embedding, ts_query_empty |-> FALSE,
     mode |-> ConvertMode(req.mode), limit |-> req.limit,
     min_score |-> IF RLess(Zero, req.min_score) THEN Some(req.min_score) ELSE None]

\* The store snapshot: the tenant's chunks as the vector index ranks them for
\* an embedding and as the text index ranks them for a query.
VectorRanking(embedding) ==
    IF embedding = Some("embedding1") THEN <<1, 2>> ELSE <<2, 3>>

BM25Ranking(query) == IF query = "attention" THEN <<2, 1>> ELSE <<3>>

\* The rows the snapshot answers to the statement of a retriever: those not
\* below the statement's min_score, at most `limit` of them.
SnapshotRows(ids, mode, request) ==
    Ok(Truncate(SelectSeq(RankedList(ids, mode),
                          LAMBDA c : ~RLess(c.score, MinScoreOrZero(request.min_score))),
                request.limit))

\* The results `match mode { .. retrieve(&search_req) }` can give on the
\* snapshot (for Hybrid one per iteration order of the fusion's map).
RetrieveOnSnapshot(search_req) ==
    LET vector(r) == VectorRetrieve(r,
            SnapshotRows(VectorRanking(r.query_embedding), "Vector", r)).result
        bm25(r) == BM25Retrieve(r,
            SnapshotRows(BM25Ranking(r.query), "BM25", r)).result
    IN  IF search_req.mode = "Vector" THEN {vector(search_req)}
        ELSE IF search_req.mode = "BM25" THEN {bm25(search_req)}
        ELSE LET v == vector(LegRequest(search_req))
                 b == bm25(LegRequest(search_req))
             IN  {HybridFinish(DefaultFusion, search_req, v, b, order) :
                     order \in Perms(ChunkMapKeys(UnwrapOrDefault(v),
                                                  UnwrapOrDefault(b)))}

\* The ProtoSearchResponse for the retrieved chunks, or the Status of a
\* failed retrieval (query_time_ms, a clock reading, is left out).
ToSearchResponse(req, retrieved) ==
    IF ~retrieved.ok THEN Err("Internal")
    ELSE [ok |-> TRUE,
          results |-> [i \in 1..Len(retrieved.chunks) |->
                          [chunk_id |-> retrieved.chunks[i].chunk_id,
                           paper_id |-> retrieved.chunks[i].paper_id,
                           chunk_index |-> retrieved.chunks[i].chunk_index,
                           score |-> retrieved.chunks[i].score]],
          total_count |-> Len(retrieved.chunks),
          mode |-> req.mode]

\* cache.get(&cache_key): Some(response) for a live entry
CacheGet(cache, key) == IF key \in DOMAIN cache THEN Some(cache[key]) ELSE None

\* cache.set_with_ttl(&cache_key, &response, 300)
CacheSet(cache, key, response) ==
    [k \in DOMAIN cache \cup {key} |-> IF k = key THEN response ELSE cache[k]]

InitGrpc ==
    /\ grpcSt = [pc |-> "serving", cache |-> <<>>, served |-> 0,
                 request |-> None, response |-> Pending, cache_hit |-> FALSE]
    /\ fuseSt = Idle
    /\ hybridSt = Idle
    /\ stitchSt = Idle
    /\ reasonSt = Idle
    /\ graphSt = Idle
    /\ rankSt = Idle
    /\ citeSt = Idle
    /\ searchSt = Idle
    /\ parseSt = Idle
    /\ embedSt = Idle
    /\ ingestSt = Idle

OtherThanGrpc ==
    <<fuseSt, hybridSt, stitchSt, reasonSt, graphSt, rankSt, citeSt,
      searchSt, parseSt, embedSt, ingestSt>>

Served(req, response, cache, hit) ==
    grpcSt' = [grpcSt EXCEPT !.served = @ + 1, !.request = Some(req),
                             !.response = response, !.cache = cache,
                             !.cache_hit = hit]

\* Uuid::parse_str(&req.tenant_id) fails: invalid_argument
SearchInvalidTenant ==
    /\ grpcSt.served < MaxSearches
    /\ \E req \in ProtoSearchRequests :
         /\ req.tenant_id = "bad"
         /\ Served(req, Err("InvalidArgument"), grpcSt.cache, FALSE)
    /\ UNCHANGED OtherThanGrpc

\* cache.get answers Ok(Some(cached)): the cached response is returned
SearchCacheHit ==
    /\ grpcSt.served < MaxSearches
    /\ \E req \in ProtoSearchRequests :
         /\ req.tenant_id # "bad"
         /\ CacheGet(grpcSt.cache, CacheKey(req)) # None
         /\ Served(req, CacheGet(grpcSt.cache, CacheKey(req))[1], grpcSt.cache, TRUE)
    /\ UNCHANGED OtherThanGrpc

\* cache.get answers Ok(None) or Err: the search runs, fails with
\* Status::internal or builds the response, and the response is cached
\* unless set_with_ttl fails
SearchRuns ==
    /\ grpcSt.served < MaxSearches
    /\ \E req \in ProtoSearchRequests, get_fails \in BOOLEAN, set_fails \in BOOLEAN :
         /\ req.tenant_id # "bad"
         /\ get_fails \/ CacheGet(grpcSt.cache, CacheKey(req)) = None
         /\ \E retrieved \in RetrieveOnSnapshot(BuildSearchRequest(req)) :
              LET response == ToSearchResponse(req, retrieved)
              IN  Served(req, response,
                         IF response.ok /\ ~set_fails
                         THEN CacheSet(grpcSt.cache, CacheKey(req), response)
                         ELSE grpcSt.cache,
                         FALSE)
    /\ UNCHANGED OtherThanGrpc

\* An entry's TTL (300 seconds) runs out.
CacheExpires ==
    /\ \E key \in DOMAIN grpcSt.cache :
         grpcSt' = [grpcSt EXCEPT
                      !.cache = [k \in DOMAIN grpcSt.cache \ {key} |-> grpcSt.cache[k]]]
    /\ UNCHANGED OtherThanGrpc

NextGrpc == SearchInvalidTenant \/ SearchCacheHit \/ SearchRuns \/ CacheExpires

SpecGrpc == InitGrpc /\ [][NextGrpc]_vars

FuseDone == fuseSt.pc = "done"

\* C1: RRFusion.fuse with vector ranking [A,B,C], lexical ranking [B,A,D],
\* weights (0.6, 0.4), k = 60 and limit 3 returns the order [B, A, C]
\* (A, B, C, D are the chunks 1, 2, 3, 4).
C1_TestRrfFusionOrder ==
    (/\ FuseDone
     /\ fuseSt.fusion = DefaultFusion
     /\ IdsOf(fuseSt.vector_results) = <<1, 2, 3>>
     /\ IdsOf(fuseSt.bm25_results) = <<2, 1, 4>>
     /\ fuseSt.limit = 3)
        => ResultIds(fuseSt.results) = <<2, 1, 3>>

\* (paper_id, chunk_index) ascending
KeyLess(a, b) ==
    \/ a.paper_id < b.paper_id
    \/ a.paper_id = b.paper_id /\ a.chunk_index < b.chunk_index

\* The order the fused results are documented to have: score descending,
\* ties by ascending (paper_id, chunk_index).
RankedBefore(fusion, a, b) ==
    LET sa == RrfScore(fusion, a.vector_rank, a.bm25_rank)
        sb == RrfScore(fusion, b.vector_rank, b.bm25_rank)
    IN  RLess(sb, sa) \/ (REq(sa, sb) /\ KeyLess(a.chunk, b.chunk))

\* C2: for fixed inputs the output of fuse is ordered by fused score
\* descending with ties broken by ascending (paper_id, chunk_index), and
\* the chunks that survive truncation are the first `limit` of that order,
\* whatever the iteration order of the map was.
C2_DeterministicTieBreak ==
    FuseDone =>
        LET v == fuseSt.vector_results
            l == fuseSt.bm25_results
            out == fuseSt.results
            kept == {out[i].chunk.chunk_id : i \in 1..Len(out)}
        IN  /\ \A i, j \in 1..Len(out) :
                 i < j => RankedBefore(fuseSt.fusion, out[i], out[j])
            /\ \A id \in ChunkMapKeys(v, l) \ kept : \A i \in 1..Len(out) :
                 RankedBefore(fuseSt.fusion, out[i], ChunkMapEntry(v, l, id))


HybridDone == hybridSt.pc = "done"

\* C4: when both the vector and the lexical retriever fail inside
\* HybridRetriever.retrieve, the call returns an error, never a successful
\* (possibly empty) result.
C4_BothFailIsError ==
    (HybridDone /\ ~hybridSt.vector_results.ok /\ ~hybridSt.bm25_results.ok)
        => ~hybridSt.response.ok

\* C5: when exactly one retriever fails, the call succeeds with the
\* surviving retriever's results as they are: same chunks, order, scores
\* and source tag, no RRF rescoring and no re-tagging as hybrid.
C5_SurvivorReturnedAsIs ==
    /\ (HybridDone /\ ~hybridSt.vector_results.ok /\ hybridSt.bm25_results.ok)
           => hybridSt.response = Ok(hybridSt.bm25_results.chunks)
    /\ (HybridDone /\ hybridSt.vector_results.ok /\ ~hybridSt.bm25_results.ok)
           => hybridSt.response = Ok(hybridSt.vector_results.chunks)

StitchDone == stitchSt.pc = "done"

RECURSIVE SumTokens(_)
SumTokens(windows) ==
    IF windows = <<>> THEN 0 ELSE windows[1].token_count + SumTokens(Tail(windows))

\* C6: the windows returned by stitch number at most max_windows and the
\* sum of their token_count is at most max_tokens, also when the last
\* window was produced by trim_window.
C6_WindowAndTokenBudget ==
    StitchDone =>
        /\ Len(stitchSt.windows) <= stitchSt.config.max_windows
        /\ SumTokens(stitchSt.windows) <= stitchSt.config.max_tokens

RECURSIVE FirstAppearance(_, _)
\* The papers of a chunk list in the order of their first appearance.
FirstAppearance(chunks, seen) ==
    IF chunks = <<>> THEN <<>>
    ELSE IF chunks[1].paper_id \in seen THEN FirstAppearance(Tail(chunks), seen)
    ELSE <<chunks[1].paper_id>>
             \o FirstAppearance(Tail(chunks), seen \cup {chunks[1].paper_id})

\* C7: stitch considers papers in the order of their first appearance in
\* the ranked input: the windows built are those of the earliest-appearing
\* papers (among the chunks that pass min_chunk_score).
C7_FirstAppearanceOrder ==
    StitchDone =>
        LET ranked == FirstAppearance(
                          SelectSeq(stitchSt.chunks,
                              LAMBDA c : ~RLess(c.score, stitchSt.config.min_chunk_score)),
                          {})
            n == Len(stitchSt.windows)
        IN  {stitchSt.windows[i].paper_id : i \in 1..n} = {ranked[i] : i \in 1..n}

Figure1 == Expand(Str(<<"F", "i", "g", "u", "r", "e", " ", "1">>))

\* C8: stitching the chunk ending "... Figure 1" with the chunk starting
\* "Figure 1 shows results. ..." of the same paper, stitch overlap 20, gives
\* a window whose content contains "Figure 1" exactly once.
C8_SharedTextOnce ==
    (/\ StitchDone
     /\ stitchSt.config.stitch_overlap = 20
     /\ Len(stitchSt.chunks) = 2
     /\ stitchSt.chunks[1].content = FigureLeft
     /\ stitchSt.chunks[2].content = FigureRight
     /\ Len(stitchSt.windows) = 1)
        => Occurrences(Expand(stitchSt.windows[1].content), Figure1) = 1

\* C9: every CrossReference returned by stitch has
\* from_window < to_window < number of returned windows, and its strength
\* is the Jaccard overlap of the windows at those two positions of the
\* returned (relevance-sorted) window list.
C9_CrossRefsIndexReturnedWindows ==
    StitchDone =>
        \A k \in 1..Len(stitchSt.cross_refs) :
            LET r == stitchSt.cross_refs[k]
            IN  /\ r.from_window < r.to_window
                /\ r.to_window < Len(stitchSt.windows)
                /\ r.strength = CalculateOverlap(
                                    stitchSt.windows[r.from_window + 1].content,
                                    stitchSt.windows[r.to_window + 1].content)


ReasonDone == reasonSt.pc = "done"

FactSet(facts) == {facts[i] : i \in 1..Len(facts)}

\* The returned chain counts its hops, has at most max_hops of them, and
\* numbers them 1..hop_count.
ChainShape ==
    ReasonDone =>
        /\ reasonSt.chain.hop_count = Len(reasonSt.chain.hops)
        /\ reasonSt.chain.hop_count <= reasonSt.config.max_hops
        /\ \A i \in 1..Len(reasonSt.chain.hops) :
               reasonSt.chain.hops[i].hop_number = i

\* From one hop to the next the accumulated facts keep every fact they had
\* and hold every fact of the recorded hops.
FactsKept ==
    reasonSt.pc = "loop" =>
        /\ FactSet(reasonSt.all_facts) \subseteq FactSet(reasonSt'.all_facts)
        /\ \A i \in 1..Len(reasonSt'.hops) :
               FactSet(reasonSt'.hops[i].facts) \subseteq FactSet(reasonSt'.all_facts)
        /\ ReasonDone' => reasonSt'.chain.all_facts = reasonSt'.all_facts

\* C10: for every behaviour of search_fn, the chain returned by
\* Reasoner::reason has hop_count equal to the number of recorded hops and at
\* most max_hops, its hops are numbered exactly 1..hop_count, and the
\* accumulated facts never shrink from one hop to the next.
C10_ReasonerMonotonicity == [](ChainShape) /\ [][FactsKept]_vars

\* C10 witness: a chain of three hops was returned, each hop adding a fact.
C10_Witness ==
    /\ ReasonDone
    /\ reasonSt.chain.hop_count = 3
    /\ \A i \in 1..3 : reasonSt.chain.hops[i].facts # <<>>
    /\ Cardinality(FactSet(reasonSt.chain.all_facts)) = 3

\* The scenario of a search_fn that only ever returns chunks of score 0.2 to
\* a reasoner with max_hops = 3 and min_confidence = 0.9.
LowScoreScenario ==
    /\ reasonSt.config.max_hops = 3
    /\ reasonSt.config.min_confidence = <<9, 10>>
    /\ \A i \in 1..Len(reasonSt.found) :
           /\ reasonSt.found[i].ok
           /\ reasonSt.found[i].chunks # <<>>
           /\ \A j \in 1..Len(reasonSt.found[i].chunks) :
                  reasonSt.found[i].chunks[j].score = <<2, 10>>

\* C11: a hop whose confidence is below min_confidence is recorded, is the
\* last hop of the chain and is followed by no search_fn call; with
\* max_hops = 3, min_confidence = 0.9 and a search_fn returning chunks of
\* score 0.2 the returned chain has hop_count = 1.
C11_LowConfidenceEndsChain ==
    /\ \A i \in 1..Len(reasonSt.hops) :
           RLess(reasonSt.hops[i].confidence, reasonSt.config.min_confidence)
               => /\ i = Len(reasonSt.hops)
                  /\ ReasonDone
                  /\ reasonSt.chain.hops = reasonSt.hops
                  /\ Len(reasonSt.calls) = i
    /\ (ReasonDone /\ LowScoreScenario) => reasonSt.chain.hop_count = 1

\* C11 witness: the scenario ran and its one hop has confidence below 0.9.
C11_Witness ==
    /\ ReasonDone
    /\ LowScoreScenario
    /\ reasonSt.found # <<>>
    /\ reasonSt.chain.hop_count = 1
    /\ RLess(reasonSt.chain.hops[1].confidence, <<9, 10>>)

SeqSet(s) == {s[i] : i \in 1..Len(s)}

\* Number of positions of s holding x.
CountIn(s, x) == Cardinality({i \in 1..Len(s) : s[i] = x})

\* C12: after any sequence of add_edge calls the two adjacency maps agree:
\* v is in outgoing[u] if and only if u is in incoming[v].
C12_GraphSymmetry ==
    graphSt.pc # "idle" =>
        \A u \in Papers, v \in Papers :
            v \in SeqSet(graphSt.graph.outgoing[u])
                <=> u \in SeqSet(graphSt.graph.incoming[v])

\* C12 witness: a graph of three rows, one of them repeated.
C12_Witness ==
    /\ graphSt.pc = "build"
    /\ Len(graphSt.rows) = 3
    /\ graphSt.rows[1] = graphSt.rows[3]
    /\ graphSt.rows[1] # graphSt.rows[2]
    /\ graphSt.rows[1][1] # graphSt.rows[1][2]

\* The distinct papers other than p that some row names as citing p.
DistinctCiters(rows, p) ==
    {rows[i][1] : i \in {j \in 1..Len(rows) : rows[j][2] = p /\ rows[j][1] # p}}

\* C13: a graph built from any list of rows, rows with citing = cited and
\* repeated rows included, holds no self-edge and each (citing, cited) pair at
\* most once, so citation_count(p) is the number of distinct other papers
\* citing p.
C13_NoSelfEdgeNoDuplicate ==
    graphSt.pc # "idle" =>
        \A p \in Papers :
            /\ p \notin SeqSet(graphSt.graph.outgoing[p])
            /\ p \notin SeqSet(graphSt.graph.incoming[p])
            /\ \A q \in Papers : CountIn(graphSt.graph.outgoing[p], q) <= 1
            /\ \A q \in Papers : CountIn(graphSt.graph.incoming[p], q) <= 1
            /\ CitationCount(graphSt.graph, p) = Cardinality(DistinctCiters(graphSt.rows, p))

Traversed == graphSt.pc = "traversed"

\* The papers one edge away from the papers of S in the direction.
StepFrom(graph, S, direction) ==
    UNION {CASE direction = "Forward" -> SeqSet(graph.outgoing[p])
             [] direction = "Backward" -> SeqSet(graph.incoming[p])
             [] direction = "Both" -> SeqSet(graph.outgoing[p]) \cup SeqSet(graph.incoming[p])
           : p \in S}

RECURSIVE Within(_, _, _, _)
\* The papers at most k edges away from start.
Within(graph, start, direction, k) ==
    IF k = 0 THEN {start}
    ELSE LET near == Within(graph, start, direction, k - 1)
         IN  near \cup StepFrom(graph, near, direction)

\* The length of the shortest path from start to p, for p within `depth`.
ShortestLength(graph, start, direction, depth, p) ==
    CHOOSE d \in 0..depth : /\ p \in Within(graph, start, direction, d)
                            /\ \A e \in 0..(d - 1) : p \notin Within(graph, start, direction, e)

\* C14: traverse(start, D, forward or backward) returns exactly the papers
\* other than start whose shortest path length d from start in that direction
\* is within 1..D, each once, paired with that length d.
C14_TraverseShortestPaths ==
    (Traversed /\ graphSt.traversal[1].direction \in {"Forward", "Backward"}) =>
        LET t == graphSt.traversal[1]
            near == Within(graphSt.graph, t.start, t.direction, t.depth) \ {t.start}
        IN  /\ SeqSet(t.result) =
                  {<<p, ShortestLength(graphSt.graph, t.start, t.direction, t.depth, p)>> :
                      p \in near}
            /\ Len(t.result) = Cardinality(near)

\* C15: traverse with direction Both follows outgoing and incoming edges:
\* every paper the seed cites or that cites the seed is returned at hop
\* distance 1 (depth >= 1).
C15_BothFollowsBothDirections ==
    (Traversed /\ graphSt.traversal[1].direction = "Both") =>
        LET t == graphSt.traversal[1]
        IN  \A p \in (SeqSet(GetReferences(graphSt.graph, t.start))
                        \cup SeqSet(GetCitations(graphSt.graph, t.start))) \ {t.start} :
                <<p, 1>> \in SeqSet(t.result)

\* The sum of the scores of all nodes.
ScoreMass == SumOver(rankSt.scores, rankSt.graph.nodes)

\* C16: before the final normalization the sum of all node scores is 1
\* (within 1e-6) after every iteration, for every graph, graphs with dangling
\* nodes included.
C16_MassIsOne ==
    (rankSt.pc \in {"iterate", "normalize"} /\ rankSt.iterations >= 1) =>
        LET off == RAbs(RSum(ScoreMass, RNeg(One)))
        IN  off[1] <= off[2] \div 1000000

RankDone == rankSt.pc = "done"

Authority(p) == rankSt.returned[1].scores[p]

\* C17: on the diamond graph A -> B, A -> C, B -> D, C -> D compute returns
\* authority(D) > authority(B) = authority(C) > authority(A), and the
\* normalized top score 1.0 belongs to D.
C17_DiamondOrder ==
    (RankDone /\ rankSt.graph = DiamondGraph) =>
        /\ Authority("D") = One
        /\ RLt(Authority("B"), Authority("D"))
        /\ Authority("B") = Authority("C")
        /\ RLt(Authority("A"), Authority("B"))

\* C17 witness: the diamond converged (the fourth pass changed nothing) and
\* its scores were returned.
C17_Witness ==
    /\ RankDone
    /\ rankSt.graph = DiamondGraph
    /\ rankSt.iterations = 4
    /\ rankSt.max_diff = Zero
    /\ Authority("D") = One

\* The loop ran max_iterations passes and the last one still moved a score by
\* epsilon or more.
NotConverged ==
    /\ rankSt.iterations = rankSt.config.max_iterations
    /\ ~BelowEpsilon(rankSt.max_diff, rankSt.config.epsilon)

\* C18: when the largest change never drops below epsilon within
\* max_iterations passes, compute stops after max_iterations passes and
\* returns the current iterate, successfully, with a converged = false
\* indication.
C18_NonConvergenceIsFlagged ==
    (RankDone /\ NodeCount(rankSt.graph) > 0 /\ NotConverged) =>
        /\ rankSt.returned # None
        /\ rankSt.returned[1].scores = NormalizeScores(rankSt.graph, rankSt.scores)
        /\ "converged" \in DOMAIN rankSt.returned[1]
        /\ rankSt.returned[1].converged = FALSE

CiteDone == citeSt.pc = "done"

RECURSIVE Utf8(_)
\* The bytes of a character sequence.
Utf8(s) ==
    IF s = <<>> THEN <<>>
    ELSE (IF Width(Head(s)) = 2 THEN <<"0xC3", "0xA9">> ELSE <<Head(s)>>)
         \o Utf8(Tail(s))

\* The bytes from offset p on spell "[", a decimal numeral of n, "]".
CitesAtByte(bytes, p, n) ==
    /\ bytes[p + 1] = "["
    /\ \E q \in (p + 3)..Len(bytes) :
           /\ bytes[q] = "]"
           /\ \A m \in (p + 2)..(q - 1) : IsDigit(bytes[m])
           /\ ParseUsize(SubSeq(bytes, p + 2, q - 1)) = n

\* The byte offsets at which the response cites number n.
CitedAt(n) ==
    LET bytes == Utf8(citeSt.response)
    IN  {p \in 0..(Len(bytes) - 1) : CitesAtByte(bytes, p, n)}

ParseDone == parseSt.pc = "done"

\* The categories in their order of precedence, each with the patterns that
\* match anywhere in the query and the patterns that match at its start.
IntentPatterns ==
    <<[intent |-> "Comparison",
       anywhere |->
         {<<" ", "v", "s", " ">>,
          <<" ", "v", "e", "r", "s", "u", "s", " ">>,
          <<"c", "o", "m", "p", "a", "r", "e">>,
          <<"d", "i", "f", "f", "e", "r", "e", "n", "c", "e", " ", "b",
            "e", "t", "w", "e", "e", "n">>},
       leading |->
         {}],
      [intent |-> "Procedural",
       anywhere |->
         {<<"h", "o", "w", " ", "t", "o">>,
          <<"h", "o", "w", " ", "d", "o">>,
          <<"s", "t", "e", "p", " ", "b", "y", " ", "s", "t", "e", "p">>,
          <<"i", "m", "p", "l", "e", "m", "e", "n", "t">>},
       leading |->
         {}],
      [intent |-> "Survey",
       anywhere |->
         {<<"s", "t", "a", "t", "e", " ", "o", "f", " ", "t", "h", "e",
            " ", "a", "r", "t">>,
          <<"s", "u", "r", "v", "e", "y">>,
          <<"r", "e", "v", "i", "e", "w", " ", "o", "f">>,
          <<"o", "v", "e", "r", "v", "i", "e", "w">>},
       leading |->
         {}],
      [intent |-> "Factual",
       anywhere |->
         {},
       leading |->
         {<<"w", "h", "a", "t", " ", "i", "s">>,
          <<"w", "h", "o", " ", "i", "s">>,
          <<"w", "h", "e", "n">>,
          <<"d", "e", "f", "i", "n", "e">>}],
      [intent |-> "Exploratory",
       anywhere |->
         {<<"u", "n", "d", "e", "r", "s", "t", "a", "n", "d">>},
       leading |->
         {<<"w", "h", "y">>,
          <<"e", "x", "p", "l", "a", "i", "n">>}]>>

MatchesCategory(query_lower, category) ==
    \/ \E p \in category.anywhere : Contains(query_lower, p)
    \/ \E p \in category.leading : StartsWith(query_lower, p)

\* C21: the intent is that of the first category, in the order Comparison,
\* Procedural, Survey, Factual, Exploratory, one of whose patterns the
\* lowercased query matches (the Procedural patterns anywhere in the query,
\* the Factual ones and 'why'/'explain' only at its start), and General when
\* no category matches.
C21_FirstMatchingCategory ==
    ParseDone =>
        LET query_lower == LowerStr(Trim(parseSt.query))
            matching == {i \in 1..Len(IntentPatterns) :
                            MatchesCategory(query_lower, IntentPatterns[i])}
        IN  parseSt.result.understanding.intent =
                IF matching = {} THEN "General"
                ELSE IntentPatterns[CHOOSE i \in matching :
                                        \A j \in matching : i <= j].intent

\* C22: 'How does transformer attention mechanism work?' is classified as
\* Exploratory and its entity list is not empty.
C22_HowDoesIsExploratory ==
    (ParseDone /\ parseSt.query = HowDoesQuery) =>
        /\ parseSt.result.understanding.intent = "Exploratory"
        /\ parseSt.result.understanding.entities # <<>>

\* C23: parse fails with InvalidQuery exactly when the query is empty once
\* trimmed, and succeeds for every other query.
C23_EmptyQueryIsInvalid ==
    ParseDone =>
        IF Trim(parseSt.query) = <<>>
        THEN ~parseSt.result.ok /\ parseSt.result.err = "InvalidQuery"
        ELSE parseSt.result.ok

\* C24: a vector retrieval whose request has no query_embedding ends in a
\* validation error and sends no statement to the store, both when
\* VectorRetriever::retrieve is called alone and when it is the vector leg of
\* the hybrid retrieve.
C24_NoEmbeddingNoStoreRead ==
    (hybridSt.pc # "idle" /\ hybridSt.request.query_embedding = None) =>
        /\ "vector" \notin hybridSt.db_queries
        /\ hybridSt.pc = "vector_done" =>
               hybridSt.response = Err("ValidationFailed")
        /\ (hybridSt.pc \in {"join", "done"} /\ hybridSt.vector_results # Pending) =>
               hybridSt.vector_results = Err("ValidationFailed")

\* C24 witness: a hybrid retrieve without an embedding has returned; its
\* vector leg failed without a statement while the BM25 leg queried the store.
C24_Witness ==
    /\ hybridSt.pc = "done"
    /\ hybridSt.request.query_embedding = None
    /\ hybridSt.vector_results = Err("ValidationFailed")
    /\ hybridSt.db_queries = {"bm25"}

\* Vec::remove of the element at rank r
RemoveAt(list, r) == SubSeq(list, 1, r - 1) \o SubSeq(list, r + 1, Len(list))

\* Two outputs list the chunks they share in the same order.
SameRelativeOrder(a, b) ==
    LET common == SeqSet(a) \cap SeqSet(b)
    IN  SelectSeq(a, LAMBDA id : id \in common)
            = SelectSeq(b, LAMBDA id : id \in common)

\* The output of fuse for the lists v and l can order the chunks it shares
\* with the output at hand as that output does.
StableUnder(v, l) ==
    \E order \in Perms(ChunkMapKeys(v, l)) :
        SameRelativeOrder(ResultIds(fuseSt.results),
                          ResultIds(Fuse(fuseSt.fusion, v, l, fuseSt.limit, order)))

\* C25: for two non-empty ranked lists, removing from either list a chunk
\* whose rank in that list is greater than limit leaves the order of the
\* output of fuse unchanged (read at its weakest: the chunks present in both
\* outputs keep their relative order, for some iteration order of the map).
C25_StableBeyondLimit ==
    (FuseDone /\ fuseSt.vector_results # <<>> /\ fuseSt.bm25_results # <<>>) =>
        /\ \A r \in (fuseSt.limit + 1)..Len(fuseSt.vector_results) :
               StableUnder(RemoveAt(fuseSt.vector_results, r), fuseSt.bm25_results)
        /\ \A r \in (fuseSt.limit + 1)..Len(fuseSt.bm25_results) :
               StableUnder(fuseSt.vector_results, RemoveAt(fuseSt.bm25_results, r))

\* C26: the hops run one after another: search_fn is called for hop h+1
\* only once hop h is recorded, and with the next_query of hop h; every hop
\* but the last has a next_query, each hop's query is the next_query of the
\* hop before it, and a hop without next_query is the last one, after which
\* search_fn is not called again.
C26_HopsSequential ==
    reasonSt.pc # "idle" =>
        /\ Len(reasonSt.calls) <= Len(reasonSt.hops) + 1
        /\ \A i \in 1..Len(reasonSt.calls) :
               reasonSt.calls[i] = IF i = 1 THEN reasonSt.initial_query
                                   ELSE reasonSt.hops[i - 1].next_query[1]
        /\ \A i \in 1..Len(reasonSt.hops) :
               /\ reasonSt.hops[i].query = reasonSt.calls[i]
               /\ i < Len(reasonSt.hops) =>
                      /\ reasonSt.hops[i].next_query # None
                      /\ reasonSt.hops[i + 1].query = reasonSt.hops[i].next_query[1]
               /\ reasonSt.hops[i].next_query = None =>
                      /\ i = Len(reasonSt.hops)
                      /\ Len(reasonSt.calls) = i
                      /\ ReasonDone
        /\ ReasonDone => reasonSt.chain.hops = reasonSt.hops

\* C26 witness: a chain of three hops, the second and third asked with the
\* next_query of the hop before, the third without next_query.
C26_Witness ==
    /\ ReasonDone
    /\ Len(reasonSt.chain.hops) = 3
    /\ Len(reasonSt.calls) = 3
    /\ reasonSt.chain.hops[1].next_query # None
    /\ reasonSt.chain.hops[2].query = reasonSt.chain.hops[1].next_query[1]
    /\ reasonSt.chain.hops[2].query # reasonSt.chain.hops[1].query
    /\ reasonSt.chain.hops[3].query = reasonSt.chain.hops[2].next_query[1]
    /\ reasonSt.chain.hops[3].next_query = None

\* The qualifying sentences of the answer to call i that no earlier hop
\* recorded.
UnseenQualifying(i) ==
    LET sentences == AllSentences(reasonSt.found[i].chunks)
        query_words == QueryWords(reasonSt.hops[i].query)
        earlier == UNION {FactSet(reasonSt.hops[j].facts) : j \in 1..(i - 1)}
    IN  {Trim(sentences[k]) :
            k \in {n \in 1..Len(sentences) : Qualifies(sentences[n], query_words)}}
            \ earlier

\* C27: the facts of a hop are the max_facts_per_hop shortest qualifying
\* sentences of its search results that no earlier hop recorded, and fewer
\* than max_facts_per_hop only when there are fewer such sentences.
C27_ShortestUnseenFacts ==
    reasonSt.pc # "idle" =>
        \A i \in 1..Len(reasonSt.hops) :
            LET facts == FactSet(reasonSt.hops[i].facts)
                unseen == UnseenQualifying(i)
            IN  /\ facts \subseteq unseen
                /\ Len(reasonSt.hops[i].facts) =
                       Min(reasonSt.config.max_facts_per_hop, Cardinality(unseen))
                /\ \A f \in facts : \A g \in unseen \ facts :
                       StrBytes(f) <= StrBytes(g)

\* C28: whatever jobs were delivered, and delivered again after a failure
\* part-way, every paper has at most one stored chunk per chunk_index.
C28_OneChunkPerIndex ==
    embedSt.pc # "idle" =>
        \A key \in DOMAIN embedSt.chunks : embedSt.chunks[key] <= 1

\* C29: for a tenant and an idempotency key at most one ingestion job is
\* ever created, also when requests with that key run concurrently, and all
\* requests with that key that are answered return the id of that one job.
C29_OneJobPerIdempotencyKey ==
    ingestSt.pc # "idle" =>
        /\ \A i, j \in 1..Len(ingestSt.jobs) :
               (/\ ingestSt.jobs[i].idempotency_key # None
                /\ ingestSt.jobs[i].tenant_id = ingestSt.jobs[j].tenant_id
                /\ ingestSt.jobs[i].idempotency_key = ingestSt.jobs[j].idempotency_key)
                   => i = j
        /\ \A r, s \in DOMAIN ingestSt.step :
               (/\ ingestSt.response[r].ok
                /\ ingestSt.response[s].ok
                /\ ingestSt.requests[r].idempotency_key # None
                /\ ingestSt.requests[r].tenant_id = ingestSt.requests[s].tenant_id
                /\ ingestSt.requests[r].idempotency_key
                       = ingestSt.requests[s].idempotency_key)
                   => ingestSt.response[r].job_id = ingestSt.response[s].job_id

\* C30: with the result cache on, the response a Search request gets is one
\* computed for its own inputs on the store snapshot, min_score and
\* query_embedding included, never the response cached for another request.
C30_ResponseForOwnInputs ==
    (grpcSt.pc # "idle" /\ grpcSt.served > 0 /\ grpcSt.request[1].tenant_id # "bad") =>
        grpcSt.response \in
            {ToSearchResponse(grpcSt.request[1], retrieved) :
                retrieved \in RetrieveOnSnapshot(BuildSearchRequest(grpcSt.request[1]))}

====
